---- MODULE Spec2Model ----
(***************************************************************************)
(* A/B-test analysis engine: the validation suite of                       *)
(* scripts/validation.py (ExperimentValidator, validate_test) and the      *)
(* metric classifier / test selector of scripts/statistical_analysis.py    *)
(* (StatisticalAnalyzer).                                                   *)
(*                                                                         *)
(* Everything is synchronous and single-threaded: one entry point is       *)
(* active at a time (op), pc is its position.  Numbers that are floats in  *)
(* the program are kept as scaled integers: SMD, CV in thousandths,        *)
(* outlier share in percent; a p-value is kept as the interval it falls    *)
(* in relative to the thresholds 0.001 and 0.05.                           *)
(***************************************************************************)
EXTENDS Integers, Sequences, FiniteSets, TLC

VARIABLES
    op,        \* entry point being executed, "idle" between calls
    pc,        \* position inside the entry point
    df,        \* the dataset the entry point was called with
    args,      \* its other arguments
    results,   \* the findings kept so far: run_all_validations' results dict,
               \* validate_test's local variables
    executed,  \* the checks invoked so far, in invocation order
    banner,    \* run_all_validations: the closing banner it printed
    ret        \* what the call produced: nothing yet, a value, an exception

vars == <<op, pc, df, args, results, executed, banner, ret>>

\* ------------------------------------------------------------------------
\* Bounds of the model
\* ------------------------------------------------------------------------
MaxVariants == 3

\* ------------------------------------------------------------------------
\* Python values
\* ------------------------------------------------------------------------
None == [isNone |-> TRUE, val |-> <<>>]
Some(v) == [isNone |-> FALSE, val |-> v]
\* faulty variant of Truthy: `if x is not None:`
Truthy_NotNone(o) == ~o.isNone

\* `if x:` for an Optional[list] / Optional[str]
Truthy(o) == ~o.isNone /\ Len(o.val) > 0

EmptyDict == [k \in {} |-> TRUE]
\* d[k] = v
DictSet(d, k, v) == [x \in (DOMAIN d) \cup {k} |-> IF x = k THEN v ELSE d[x]]

\* d.update(r)
DictUpdate(d, r) ==
    [k \in DOMAIN d \cup DOMAIN r |-> IF k \in DOMAIN r THEN r[k] ELSE d[k]]
NoReturn == [kind |-> "none"]
Returned(v) == [kind |-> "value", value |-> v]
Raised(e) == [kind |-> "exception", error |-> e]

RECURSIVE SumSeq(_)
SumSeq(s) == IF s = <<>> THEN 0 ELSE Head(s) + SumSeq(Tail(s))

RECURSIVE MinSeq(_)
MinSeq(s) == IF Len(s) = 1 THEN s[1]
             ELSE LET m == MinSeq(Tail(s)) IN IF s[1] < m THEN s[1] ELSE m

SetMax(S) == CHOOSE x \in S : \A y \in S : y <= x

\* w in s (substring), on lower-case text
Contains(s, w) ==
    \E i \in 1..(Len(s) - Len(w) + 1) : SubSeq(s, i, i + Len(w) - 1) = w

\* str.lower() on the names the model uses
Lower(s) ==
    CASE s = "Revenue" -> "revenue"
      [] s = "Price_USD" -> "price_usd"
      [] s = "Converted" -> "converted"
      [] s = "Page_Views" -> "page_views"
      [] OTHER -> s

\* ------------------------------------------------------------------------
\* ExperimentValidator: thresholds (validation.py, __init__)
\* ------------------------------------------------------------------------
\* srm_threshold = 0.001, in thousandths
srm_threshold == 1
\* balance_threshold = 0.2, in thousandths
balance_threshold == 200
\* temporal_threshold = 0.2, in thousandths
temporal_threshold == 200

\* ------------------------------------------------------------------------
\* 1. Sample ratio mismatch
\* ------------------------------------------------------------------------
\* sum over variants of (n*observed - total)^2; chi2_stat is this / (n*total)
\* for expected = total / n_variants each
RECURSIVE SumSqDev(_, _, _)
SumSqDev(counts, n, total) ==
    IF counts = <<>> THEN 0
    ELSE (n * Head(counts) - total) * (n * Head(counts) - total)
         + SumSqDev(Tail(counts), n, total)

\* chi2_stat > q / 1000
Chi2Above(counts, q) ==
    LET n == Len(counts)
        total == SumSeq(counts)
    IN  SumSqDev(counts, n, total) > (q * n * total) \div 1000

\* upper quantiles of the chi-square distribution, in thousandths:
\* 1 - chi2.cdf(x, dof) < 0.001 iff x > Chi2Quantile999(dof), and the same
\* for 0.05 and Chi2Quantile95
Chi2Quantile999(dof) ==
    CASE dof = 1 -> 10828 [] dof = 2 -> 13816 [] dof = 3 -> 16266 [] dof = 4 -> 18467
Chi2Quantile95(dof) ==
    CASE dof = 1 -> 3841 [] dof = 2 -> 5991 [] dof = 3 -> 7815 [] dof = 4 -> 9488

\* pvalue = 1 - stats.chi2.cdf(chi2_stat, df_chi), as the interval it lies in;
\* with one variant df_chi = 0 and the cdf, hence the p-value, is nan
PValue(counts) ==
    LET dof == Len(counts) - 1 IN
    IF dof = 0 THEN "nan"
    ELSE IF Chi2Above(counts, Chi2Quantile999(dof)) THEN "[0,0.001)"
    ELSE IF Chi2Above(counts, Chi2Quantile95(dof)) THEN "[0.001,0.05)"
    ELSE "[0.05,1]"

\* pvalue < t / 1000 for the thresholds the model uses (nan < t is False)
PValueBelow(pv, t) ==
    CASE t = 1 -> pv = "[0,0.001)"
      [] t = 50 -> pv \in {"[0,0.001)", "[0.001,0.05)"}

sample_ratio_mismatch_test(d) ==
    LET pvalue == PValue(d.counts)
        has_srm == PValueBelow(pvalue, srm_threshold)
    IN  [test |-> "sample_ratio_mismatch",
         degrees_of_freedom |-> Len(d.counts) - 1,
         pvalue |-> pvalue,
         threshold |-> srm_threshold,
         has_srm |-> has_srm,
         observed_counts |-> d.counts,
         passed |-> ~has_srm,
         \* result['warning'] or result['message']
         text_key |-> IF has_srm THEN "warning" ELSE "message",
         text |-> IF has_srm THEN "CRITICAL: SRM detected. Experiment is INVALID."
                  ELSE "No SRM detected. Allocation is as expected."]

\* ------------------------------------------------------------------------
\* 2. Data integrity
\* ------------------------------------------------------------------------
InColumns(d, c) == \E i \in 1..Len(d.columns) : d.columns[i] = c

RECURSIVE ColumnIssues(_, _, _)
\* one issue per column of cols (in column order) that is in the set S
ColumnIssues(cols, S, kind) ==
    IF cols = <<>> THEN <<>>
    ELSE (IF Head(cols) \in S THEN <<[kind |-> kind, col |-> Head(cols)]>> ELSE <<>>)
         \o ColumnIssues(Tail(cols), S, kind)

\* df_temp = df.copy(); df_temp['timestamp'] = pd.to_datetime(...): the
\* frame the future-date test reads
integrity_df_temp(d) ==
    IF InColumns(d, "timestamp")
    THEN [d EXCEPT !.datetime = @ \cup {"timestamp"}] ELSE d

\* the caller's frame after data_integrity_check: the parsed column was
\* written to df_temp
integrity_caller_frame(d) == d

\* faulty variant of data_integrity_check: `elif len(issues) < 2`
data_integrity_check_WarnBelowTwo(d) ==
    LET duplicates == IF InColumns(d, "session_id") THEN d.dupSessions ELSE 0
        dupIssues == IF duplicates > 0
                     THEN <<[kind |-> "duplicates", col |-> "session_id"]>> ELSE <<>>
        missIssues == ColumnIssues(d.columns, d.missing, "missing")
        moneyCols == {c \in d.numeric :
                        Contains(Lower(c), "revenue") \/ Contains(Lower(c), "price")}
        negIssues == ColumnIssues(d.columns, moneyCols \cap d.negative, "negative")
        futIssues == IF InColumns(d, "timestamp") /\ d.futureRows > 0
                     THEN <<[kind |-> "future", col |-> "timestamp"]>> ELSE <<>>
        issues == dupIssues \o missIssues \o negIssues \o futIssues
        verdict == IF Len(issues) = 0 THEN <<"PASS", TRUE>>
                   ELSE IF Len(issues) < 2 THEN <<"WARNING", TRUE>>
                   ELSE <<"FAIL", FALSE>>
    IN  [test |-> "data_integrity",
         issues |-> issues,
         n_issues |-> Len(issues),
         status |-> verdict[1],
         passed |-> verdict[2]]

data_integrity_check(d) ==
    LET duplicates == IF InColumns(d, "session_id") THEN d.dupSessions ELSE 0
        dupIssues == IF duplicates > 0
                     THEN <<[kind |-> "duplicates", col |-> "session_id"]>> ELSE <<>>
        missIssues == ColumnIssues(d.columns, d.missing, "missing")
        moneyCols == {c \in d.numeric :
                        Contains(Lower(c), "revenue") \/ Contains(Lower(c), "price")}
        negIssues == ColumnIssues(d.columns, moneyCols \cap d.negative, "negative")
        futIssues == IF InColumns(d, "timestamp") /\ d.futureRows > 0
                     THEN <<[kind |-> "future", col |-> "timestamp"]>> ELSE <<>>
        issues == dupIssues \o missIssues \o negIssues \o futIssues
        verdict == IF Len(issues) = 0 THEN <<"PASS", TRUE>>
                   ELSE IF Len(issues) <= 2 THEN <<"WARNING", TRUE>>
                   ELSE <<"FAIL", FALSE>>
    IN  [test |-> "data_integrity",
         issues |-> issues,
         n_issues |-> Len(issues),
         status |-> verdict[1],
         passed |-> verdict[2]]

\* ------------------------------------------------------------------------
\* 3. Covariate balance
\* ------------------------------------------------------------------------
RECURSIVE BalanceRows(_, _, _)
\* balance_results: for each listed covariate that is a column, one row per
\* category (categorical) or one row (continuous), with its SMD in thousandths
BalanceRows(d, covariates, threshold) ==
    IF covariates = <<>> THEN <<>>
    ELSE LET c == Head(covariates)
             rows == IF ~InColumns(d, c) THEN <<>>
                     ELSE [i \in 1..Len(d.smd[c]) |->
                             [covariate |-> c, row |-> i, smd |-> d.smd[c][i],
                              imbalanced |-> d.smd[c][i] > threshold]]
         IN  rows \o BalanceRows(d, Tail(covariates), threshold)

covariate_balance_check(d, covariates, threshold) ==
    \* variants = df[variant_col].unique()
    IF Len(d.counts) < 2
    THEN [error |-> "Need at least 2 variants for balance check",
          passed |-> FALSE]
    ELSE LET balance_results == BalanceRows(d, covariates, threshold)
             imbalanced_covariates ==
                 SelectSeq(balance_results, LAMBDA r : r.imbalanced)
             max_smd == IF Len(balance_results) > 0
                        THEN SetMax({balance_results[i].smd :
                                       i \in 1..Len(balance_results)})
                        ELSE 0
         IN  [test |-> "covariate_balance",
              balance_results |-> balance_results,
              imbalanced_covariates |-> imbalanced_covariates,
              n_imbalanced |-> Len(imbalanced_covariates),
              max_smd |-> max_smd,
              threshold |-> threshold,
              message |-> IF max_smd < 100 THEN "Excellent balance"
                          ELSE IF max_smd < threshold THEN "Good balance"
                          ELSE "covariate(s) imbalanced",
              passed |-> max_smd < threshold]

\* ------------------------------------------------------------------------
\* 4. Temporal stability
\* ------------------------------------------------------------------------
\* df = df.copy(), then the date column is parsed and a 'date' column added:
\* the frame the daily counts are taken from
temporal_local_frame(d, date_col) ==
    IF ~InColumns(d, date_col) THEN d
    ELSE [d EXCEPT !.datetime = @ \cup {date_col}, !.columns = Append(@, "date")]

\* faulty variant of temporal_caller_frame: without df.copy() the two
\* assignments land in the caller's frame
temporal_caller_frame_NoCopy(d, date_col) == temporal_local_frame(d, date_col)

\* the caller's frame after temporal_stability_check: `df` names the copy
\* from the first statement on
temporal_caller_frame(d, date_col) == d

temporal_stability_check(d, date_col, threshold) ==
    \* df[date_col] on a frame without that column
    IF ~InColumns(d, date_col) THEN Raised("KeyError")
    ELSE LET max_cv == d.maxCv
             is_stable == max_cv < threshold
         IN  Returned([test |-> "temporal_stability",
                       max_cv |-> max_cv,
                       threshold |-> threshold,
                       is_stable |-> is_stable,
                       message |-> IF is_stable THEN "Stable allocation"
                                   ELSE "Unstable allocation",
                       passed |-> is_stable])

\* ------------------------------------------------------------------------
\* 5. Outliers
\* ------------------------------------------------------------------------
\* def outlier_detection(self, df, n_cols: int = 5)
n_cols == 5

\* the values of a column in ascending order
SortedValues(xs) ==
    [k \in 1..Len(xs) |->
       xs[CHOOSE i \in 1..Len(xs) :
            k = 1 + Cardinality({j \in 1..Len(xs) :
                      xs[j] < xs[i] \/ (xs[j] = xs[i] /\ j < i)})]]

\* 4 * df[col].quantile(q / 4): linear interpolation between the two order
\* statistics around position (n - 1) * q / 4
Quantile4(xs, q) ==
    LET s == SortedValues(xs)
        h == q * (Len(xs) - 1)
        f == h \div 4
        r == h % 4
    IN  (4 - r) * s[f + 1] + (IF r > 0 THEN r * s[f + 2] ELSE 0)

\* ((df[col] < lower_bound) | (df[col] > upper_bound)).sum(), the bounds
\* Q1 - 1.5 * IQR and Q3 + 1.5 * IQR taken 8 times
CountOutliers(xs) ==
    LET Q1 == Quantile4(xs, 1)
        Q3 == Quantile4(xs, 3)
        IQR == Q3 - Q1
        lower_bound == 2 * Q1 - 3 * IQR
        upper_bound == 2 * Q3 + 3 * IQR
    IN  Cardinality({i \in 1..Len(xs) :
                       8 * xs[i] < lower_bound \/ 8 * xs[i] > upper_bound})

\* numeric_cols without session_id and user_id, in column order
RECURSIVE MetricCols(_, _)
MetricCols(cols, numeric) ==
    IF cols = <<>> THEN <<>>
    ELSE (IF Head(cols) \in numeric /\ Head(cols) \notin {"session_id", "user_id"}
          THEN <<Head(cols)>> ELSE <<>>)
         \o MetricCols(Tail(cols), numeric)

\* metric_cols[:n_cols]
FirstCols(cols, n) == SubSeq(cols, 1, IF Len(cols) < n THEN Len(cols) ELSE n)

\* faulty variant of outlier_detection: warns from 10% on
outlier_detection_WarnAtTen(d) ==
    LET examined == FirstCols(MetricCols(d.columns, d.numeric), n_cols)
        names == {examined[i] : i \in 1..Len(examined)}
        outlier_summary == [c \in names |-> [n_outliers |-> CountOutliers(d.values[c])]]
        max_outliers == IF names = {} THEN 0
                        ELSE SetMax({outlier_summary[c].n_outliers : c \in names})
        high == 100 * max_outliers >= 10 * d.rows
    IN  [test |-> "outlier_detection",
         outlier_summary |-> outlier_summary,
         max_outlier_pct |-> (100 * max_outliers) \div d.rows,
         status |-> IF high THEN "WARNING" ELSE "PASS",
         message |-> IF high
                     THEN "High outlier percentage. Consider winsorization."
                     ELSE "Outlier levels within acceptable range.",
         passed |-> ~high]

outlier_detection(d) ==
    LET examined == FirstCols(MetricCols(d.columns, d.numeric), n_cols)
        names == {examined[i] : i \in 1..Len(examined)}
        outlier_summary == [c \in names |-> [n_outliers |-> CountOutliers(d.values[c])]]
        \* max of outliers / len(df) * 100 over the summary, 0 when it is empty
        max_outliers == IF names = {} THEN 0
                        ELSE SetMax({outlier_summary[c].n_outliers : c \in names})
        \* max_outlier_pct > 10
        high == 100 * max_outliers > 10 * d.rows
    IN  [test |-> "outlier_detection",
         outlier_summary |-> outlier_summary,
         \* in whole percent
         max_outlier_pct |-> (100 * max_outliers) \div d.rows,
         status |-> IF high THEN "WARNING" ELSE "PASS",
         message |-> IF high
                     THEN "High outlier percentage. Consider winsorization."
                     ELSE "Outlier levels within acceptable range.",
         passed |-> ~high]

\* ------------------------------------------------------------------------
\* 6. Sample size
\* ------------------------------------------------------------------------
\* int(16 / (mde ** 2)) for mde = 0.05: in binary floating point
\* 0.05 ** 2 = 0.0025000000000000005 and the quotient 6399.999999999999
\* truncates to 6399
required_per_variant == 6399

sample_size_check(d) ==
    LET min_sample == MinSeq(d.counts)
        verdict ==
            IF min_sample >= required_per_variant THEN <<"ADEQUATE", TRUE>>
            \* min_sample >= required_per_variant * 0.7
            ELSE IF 10 * min_sample >= 7 * required_per_variant
                 THEN <<"BORDERLINE", TRUE>>
            ELSE <<"UNDERPOWERED", FALSE>>
    IN  [test |-> "sample_size",
         min_sample |-> min_sample,
         required_sample |-> required_per_variant,
         \* np.sqrt(16 / min_sample) if min_sample > 0 else float('inf'), kept
         \* as the quotient under the root
         detectable_mde |-> [inf |-> ~(min_sample > 0), sq_num |-> 16,
                             sq_den |-> IF min_sample > 0 THEN min_sample ELSE 1],
         status |-> verdict[1],
         message |-> CASE verdict[1] = "ADEQUATE" -> "Sample size sufficient"
                       [] verdict[1] = "BORDERLINE" -> "Can detect approximately"
                       [] OTHER -> "Only detects",
         passed |-> verdict[2]]

\* ------------------------------------------------------------------------
\* statsmodels.stats.multitest.multipletests, as both correction entry points
\* call it.  p-values and alpha are in thousandths.
\* ------------------------------------------------------------------------
Min2(a, b) == IF a < b THEN a ELSE b

\* sortind = np.argsort(pvals): the place of pvals[i] in ascending order.
\* Equal p-values get equal results wherever the sort puts them.
Rank(pvals, i) ==
    1 + Cardinality({j \in 1..Len(pvals) :
                       pvals[j] < pvals[i] \/ (pvals[j] = pvals[i] /\ j < i)})

\* pvals = np.take(pvals, sortind)
Sorted(pvals) ==
    [k \in 1..Len(pvals) |-> pvals[CHOOSE i \in 1..Len(pvals) : Rank(pvals, i) = k]]

\* reject = pvals <= alphacBonf; pvals_corrected = pvals * float(ntests)
BonferroniSorted(ps, a) ==
    LET ntests == Len(ps) IN
    [reject |-> [k \in 1..ntests |-> ps[k] * ntests <= a],
     pvals_corrected |-> [k \in 1..ntests |-> ps[k] * ntests]]

\* notreject = pvals > alphaf / np.arange(ntests, 0, -1); everything from the
\* first non-rejection on is not rejected; corrected = running maximum of
\* pvals * np.arange(ntests, 0, -1)
HolmSorted(ps, a) ==
    LET ntests == Len(ps)
        notreject == [k \in 1..ntests |-> ps[k] * (ntests - k + 1) > a]
        nr_index == {k \in 1..ntests : notreject[k]}
    IN  [reject |-> [k \in 1..ntests |-> \A j \in nr_index : k < j],
         pvals_corrected |->
             [k \in 1..ntests |-> SetMax({ps[j] * (ntests - j + 1) : j \in 1..k})]]

\* faulty variant of FdrBhSorted: the threshold does not grow with the rank
FdrBhSorted_NoStepUp(ps, a) ==
    LET ntests == Len(ps) IN
    [reject |-> [k \in 1..ntests |-> ps[k] * ntests <= a],
     pvals_corrected |-> [k \in 1..ntests |-> ps[k] * ntests]]

\* fdrcorrection: reject = pvals_sorted <= ecdffactor * alpha, then everything
\* up to the last rejection is rejected; corrected = running minimum, from
\* the largest down, of pvals_sorted / ecdffactor (kept to the thousandth)
FdrBhSorted(ps, a) ==
    LET ntests == Len(ps)
        raw == {k \in 1..ntests : ps[k] * ntests <= k * a}
    IN  [reject |-> [k \in 1..ntests |-> \E j \in raw : k <= j],
         pvals_corrected |->
             [k \in 1..ntests |->
                -SetMax({-((ps[j] * ntests) \div j) : j \in k..ntests})]]

Methods == {"bonferroni", "holm", "fdr_bh"}

\* faulty variant of multipletests: the results are returned in sorted order
\* (returnsorted=True)
multipletests_ReturnSorted(pvals, a, method) ==
    IF Len(pvals) = 0 THEN Raised("ZeroDivisionError")
    ELSE IF method \notin Methods THEN Raised("ValueError")
    ELSE LET ps == Sorted(pvals)
             out == CASE method = "bonferroni" -> BonferroniSorted(ps, a)
                      [] method = "holm" -> HolmSorted(ps, a)
                      [] method = "fdr_bh" -> FdrBhSorted(ps, a)
         IN  Returned(
               [reject |-> out.reject,
                pvals_corrected |->
                    [i \in 1..Len(pvals) |-> Min2(out.pvals_corrected[i], 1000)]])

\* multipletests(pvals, alpha, method): 1./ntests divides by zero on an empty
\* list; an unknown method is a ValueError; corrected p-values above 1 are
\* set to 1; the results go back to the order of the input
\* (reject_[sortind] = reject)
multipletests(pvals, a, method) ==
    IF Len(pvals) = 0 THEN Raised("ZeroDivisionError")
    ELSE IF method \notin Methods THEN Raised("ValueError")
    ELSE LET ps == Sorted(pvals)
             out == CASE method = "bonferroni" -> BonferroniSorted(ps, a)
                      [] method = "holm" -> HolmSorted(ps, a)
                      [] method = "fdr_bh" -> FdrBhSorted(ps, a)
         IN  Returned(
               [reject |-> [i \in 1..Len(pvals) |-> out.reject[Rank(pvals, i)]],
                pvals_corrected |->
                    [i \in 1..Len(pvals) |->
                       Min2(out.pvals_corrected[Rank(pvals, i)], 1000)]])

\* sum(flags)
CountTrue(flags) == Cardinality({i \in 1..Len(flags) : flags[i]})

\* ------------------------------------------------------------------------
\* 7. Multiple testing correction
\* ------------------------------------------------------------------------
\* alpha: float = 0.05, in thousandths
correction_alpha == 50

method_names(method) ==
    CASE method = "bonferroni" -> "Bonferroni"
      [] method = "holm" -> "Holm-Bonferroni"
      [] method = "fdr_bh" -> "Benjamini-Hochberg FDR"
      [] OTHER -> method

multiple_testing_correction(pvalues, method) ==
    LET n_tests == Len(pvalues)
        out == multipletests(pvalues, correction_alpha, method)
    IN  IF out.kind = "exception" THEN out
        ELSE Returned(
               [test |-> "multiple_testing_correction",
                method |-> method_names(method),
                n_tests |-> n_tests,
                alpha |-> correction_alpha,
                original_pvalues |-> pvalues,
                corrected_pvalues |-> out.value.pvals_corrected,
                reject |-> out.value.reject,
                n_significant_original |->
                    Cardinality({i \in 1..n_tests : pvalues[i] < correction_alpha}),
                n_significant_corrected |-> CountTrue(out.value.reject)])

\* ------------------------------------------------------------------------
\* The datasets and arguments the entry points are called with
\* ------------------------------------------------------------------------
\* rows per variant
CountChoices == {4000, 4900, 5100, 7000}

\* observed = value_counts().sort_index(): one count per variant.  No check
\* reads which label has which count, so the vectors are kept non-decreasing.
CountVectors ==
    {c \in UNION {[1..n -> CountChoices] : n \in 1..MaxVariants} :
        \A i \in 1..(Len(c) - 1) : c[i] <= c[i + 1]}

StandardCovariates == <<"device_type", "browser", "region">>

\* which covariate columns the frame has, and the SMD (thousandths) of each
\* of their comparisons
CovProfiles ==
    { [cols |-> <<>>, smd |-> EmptyDict],
      [cols |-> StandardCovariates,
       smd |-> [c \in {"device_type", "browser", "region"} |->
                  IF c = "region" THEN <<20>> ELSE <<30, 50>>]],
      [cols |-> StandardCovariates,
       smd |-> [c \in {"device_type", "browser", "region"} |->
                  IF c = "browser" THEN <<150, 250>> ELSE <<30>>]],
      [cols |-> <<"browser">>, smd |-> [c \in {"browser"} |-> <<150>>]],
      [cols |-> <<"region">>, smd |-> [c \in {"region"} |-> <<30, 200>>]] }

\* duplicated session ids, columns with missing values, numeric columns with
\* negative values, rows dated in the future
IntegrityProfiles ==
    { [dupSessions |-> 0, missing |-> {}, negative |-> {}, futureRows |-> 0],
      [dupSessions |-> 2, missing |-> {}, negative |-> {"clicks"}, futureRows |-> 0],
      [dupSessions |-> 0, missing |-> {"converted"}, negative |-> {"Revenue"},
       futureRows |-> 0],
      [dupSessions |-> 1, missing |-> {"converted"}, negative |-> {"Revenue"},
       futureRows |-> 0],
      [dupSessions |-> 1, missing |-> {"Revenue", "converted"},
       negative |-> {"Revenue"}, futureRows |-> 3] }

CvChoices == {100, 250}

\* the values of a numeric column over the rows of a frame: none, one (10%)
\* or two (20%) of them outside the IQR fences
Clean == <<1, 2, 3, 4, 5, 6, 7, 8, 9, 10>>
OneOutlier == <<1, 2, 3, 4, 5, 100, 6, 7, 8, 9>>
TwoOutliers == <<-80, 2, 3, 4, 5, 6, 7, 8, 9, 100>>
NumericColumns == {"session_id", "user_id", "converted", "clicks", "Revenue"}
OutlierChoices ==
    { [c \in NumericColumns |-> IF c = "clicks" THEN OneOutlier ELSE Clean],
      [c \in NumericColumns |-> IF c = "Revenue" THEN TwoOutliers ELSE Clean] }

MkDataset(counts, hasTs, cov, ip, cv, outl) ==
    [counts |-> counts,
     columns |-> <<"session_id", "user_id">>
                 \o (IF hasTs THEN <<"timestamp">> ELSE <<>>)
                 \o cov.cols
                 \o <<"variant", "converted", "clicks", "Revenue">>,
     numeric |-> NumericColumns,
     datetime |-> {},
     dupSessions |-> ip.dupSessions,
     missing |-> ip.missing,
     negative |-> ip.negative,
     futureRows |-> IF hasTs THEN ip.futureRows ELSE 0,
     smd |-> cov.smd,
     maxCv |-> IF hasTs THEN cv ELSE 0,
     rows |-> Len(Clean),
     values |-> outl]

Datasets ==
    {MkDataset(c, t[1], cov, ip, t[2], o) :
        c \in CountVectors,
        t \in ({TRUE} \X CvChoices) \cup {<<FALSE, 0>>},
        cov \in CovProfiles, ip \in IntegrityProfiles, o \in OutlierChoices}

NoDataset == [counts |-> <<>>]
NoArgs == [none |-> TRUE]

CovariateArgs == {None, Some(<<>>), Some(StandardCovariates)}
DateColArgs == {None, Some("timestamp")}
\* metric p-values in thousandths
PValueArgs == {None, Some(<<>>), Some(<<20, 40>>)}

\* the p-value lists the correction is called with on its own
MaxPValues == 3
PValueChoices == {10, 20, 30, 50, 400}
PValueLists == UNION {[1..n -> PValueChoices] : n \in 0..MaxPValues}

\* ------------------------------------------------------------------------
\* ExperimentValidator.run_all_validations
\* ------------------------------------------------------------------------
\* v.get('passed', True)
GetPassed(v) == IF "passed" \in DOMAIN v THEN v.passed ELSE TRUE

\* faulty variant of AfterSRM: the SRM branch does not return
AfterSRM_NoReturn(srm_result) == "integrity"

\* if srm_result['has_srm']: ... return results
AfterSRM(srm_result) == IF srm_result.has_srm THEN "return" ELSE "integrity"

\* faulty variant of SummaryBanner: critical_passed forgets the data-integrity check
SummaryBanner_SrmOnly(res) ==
    LET critical_passed == res["srm"].passed
        all_passed == \A k \in DOMAIN res : GetPassed(res[k])
    IN  IF critical_passed /\ all_passed THEN "ALL VALIDATION CHECKS PASSED"
        ELSE IF critical_passed
             THEN "CRITICAL CHECKS PASSED, MINOR WARNINGS DETECTED"
        ELSE "CRITICAL VALIDATION FAILURES"

\* faulty variant of SummaryBanner: all_passed looks at the critical checks only
SummaryBanner_NoCaution(res) ==
    LET critical_passed == res["srm"].passed /\ res["data_integrity"].passed
    IN  IF critical_passed THEN "ALL VALIDATION CHECKS PASSED"
        ELSE "CRITICAL VALIDATION FAILURES"

\* the closing banner of the summary
SummaryBanner(res) ==
    LET critical_passed == res["srm"].passed /\ res["data_integrity"].passed
        all_passed == \A k \in DOMAIN res : GetPassed(res[k])
    IN  IF critical_passed /\ all_passed THEN "ALL VALIDATION CHECKS PASSED"
        ELSE IF critical_passed
             THEN "CRITICAL CHECKS PASSED, MINOR WARNINGS DETECTED"
        ELSE "CRITICAL VALIDATION FAILURES"

SrmBanner == "VALIDATION FAILED: SRM DETECTED - EXPERIMENT IS INVALID"

Call_run_all_validations ==
    /\ op = "idle"
    /\ \E d \in Datasets, cv \in CovariateArgs, dc \in DateColArgs, pv \in PValueArgs :
         /\ df' = d
         /\ args' = [covariates |-> cv, date_col |-> dc, metric_pvalues |-> pv,
                     correction_method |-> "holm"]
    /\ op' = "run_all_validations"
    /\ pc' = "srm"
    /\ results' = EmptyDict
    /\ executed' = <<>>
    /\ banner' = ""
    /\ ret' = NoReturn

RAV_SRM ==
    /\ op = "run_all_validations" /\ pc = "srm"
    /\ LET srm_result == sample_ratio_mismatch_test(df)
           res == DictSet(results, "srm", srm_result)
       IN  /\ results' = res
           /\ executed' = Append(executed, "srm")
           /\ IF AfterSRM(srm_result) = "return"
              THEN /\ banner' = SrmBanner
                   /\ pc' = "done"
                   /\ ret' = Returned(res)
              ELSE /\ pc' = AfterSRM(srm_result)
                   /\ UNCHANGED <<banner, ret>>
    /\ UNCHANGED <<op, df, args>>

RAV_Integrity ==
    /\ op = "run_all_validations" /\ pc = "integrity"
    /\ LET integrity_result == data_integrity_check(df)
           res == DictSet(results, "data_integrity", integrity_result)
       IN  /\ results' = res
           /\ executed' = Append(executed, "data_integrity")
           /\ pc' = "balance"
    /\ df' = integrity_caller_frame(df)
    /\ UNCHANGED <<op, args, banner, ret>>

\* if covariates: ...
RAV_Balance ==
    /\ op = "run_all_validations" /\ pc = "balance"
    /\ IF Truthy(args.covariates)
       THEN /\ results' = DictSet(results, "balance",
                              covariate_balance_check(df, args.covariates.val,
                                                      balance_threshold))
            /\ executed' = Append(executed, "balance")
       ELSE UNCHANGED <<results, executed>>
    /\ pc' = "temporal"
    /\ UNCHANGED <<op, df, args, banner, ret>>

\* if date_col: ...
RAV_Temporal ==
    /\ op = "run_all_validations" /\ pc = "temporal"
    /\ IF Truthy(args.date_col)
       THEN LET out == temporal_stability_check(df, args.date_col.val, temporal_threshold)
            IN  /\ executed' = Append(executed, "temporal")
                /\ IF out.kind = "exception"
                   THEN /\ pc' = "done"
                        /\ ret' = out
                        /\ UNCHANGED results
                   ELSE /\ results' = DictSet(results, "temporal", out.value)
                        /\ pc' = "outliers"
                        /\ UNCHANGED ret
                /\ df' = temporal_caller_frame(df, args.date_col.val)
       ELSE /\ pc' = "outliers"
            /\ UNCHANGED <<results, executed, ret, df>>
    /\ UNCHANGED <<op, args, banner>>

RAV_Outliers ==
    /\ op = "run_all_validations" /\ pc = "outliers"
    /\ results' = DictSet(results, "outliers", outlier_detection(df))
    /\ executed' = Append(executed, "outliers")
    /\ pc' = "sample_size"
    /\ UNCHANGED <<op, df, args, banner, ret>>

RAV_SampleSize ==
    /\ op = "run_all_validations" /\ pc = "sample_size"
    /\ results' = DictSet(results, "sample_size", sample_size_check(df))
    /\ executed' = Append(executed, "sample_size")
    /\ pc' = "correction"
    /\ UNCHANGED <<op, df, args, banner, ret>>

\* if metric_pvalues: ...
RAV_Correction ==
    /\ op = "run_all_validations" /\ pc = "correction"
    /\ IF Truthy(args.metric_pvalues)
       THEN /\ results' = DictSet(results, "multiple_testing",
                              multiple_testing_correction(args.metric_pvalues.val,
                                                          args.correction_method).value)
            /\ executed' = Append(executed, "multiple_testing")
       ELSE UNCHANGED <<results, executed>>
    /\ pc' = "summary"
    /\ UNCHANGED <<op, df, args, banner, ret>>

RAV_Summary ==
    /\ op = "run_all_validations" /\ pc = "summary"
    /\ banner' = SummaryBanner(results)
    /\ pc' = "done"
    /\ ret' = Returned(results)
    /\ UNCHANGED <<op, df, args, results, executed>>

\* ------------------------------------------------------------------------
\* validate_test (the quick report)
\* ------------------------------------------------------------------------
\* the dict validate_test returns; balance['max_smd'] is a KeyError when the
\* balance check returned its error dict
validate_test_report(loc, d) ==
    IF "max_smd" \notin DOMAIN loc["balance"] THEN Raised("KeyError")
    ELSE Returned(
           [n_variants |-> Len(d.counts),
            srm_pvalue |-> loc["srm"].pvalue,
            srm_passed |-> loc["srm"].passed,
            integrity_passed |-> loc["integrity"].passed,
            balance_smd |-> loc["balance"].max_smd,
            balance_passed |-> loc["balance"].passed,
            temporal_cv |-> loc["temporal"].max_cv,
            temporal_passed |-> loc["temporal"].passed,
            outlier_pct |-> loc["outliers"].max_outlier_pct,
            outlier_passed |-> loc["outliers"].passed,
            min_sample |-> loc["sample_size"].min_sample,
            sample_passed |-> loc["sample_size"].passed,
            validity |-> IF loc["srm"].passed /\ loc["integrity"].passed
                         THEN "VALID" ELSE "INVALID"])

Call_validate_test ==
    /\ op = "idle"
    /\ \E d \in Datasets : df' = d
    /\ args' = NoArgs
    /\ op' = "validate_test"
    /\ pc' = "srm"
    /\ results' = EmptyDict
    /\ executed' = <<>>
    /\ banner' = ""
    /\ ret' = NoReturn

VT_SRM ==
    /\ op = "validate_test" /\ pc = "srm"
    /\ results' = DictSet(results, "srm", sample_ratio_mismatch_test(df))
    /\ executed' = Append(executed, "srm")
    /\ pc' = "integrity"
    /\ UNCHANGED <<op, df, args, banner, ret>>

VT_Integrity ==
    /\ op = "validate_test" /\ pc = "integrity"
    /\ results' = DictSet(results, "integrity", data_integrity_check(df))
    /\ executed' = Append(executed, "data_integrity")
    /\ pc' = "balance"
    /\ df' = integrity_caller_frame(df)
    /\ UNCHANGED <<op, args, banner, ret>>

VT_Balance ==
    /\ op = "validate_test" /\ pc = "balance"
    /\ results' = DictSet(results, "balance",
                      covariate_balance_check(df, StandardCovariates, balance_threshold))
    /\ executed' = Append(executed, "balance")
    /\ pc' = "temporal"
    /\ UNCHANGED <<op, df, args, banner, ret>>

VT_Temporal ==
    /\ op = "validate_test" /\ pc = "temporal"
    /\ LET out == temporal_stability_check(df, "timestamp", temporal_threshold)
       IN  /\ executed' = Append(executed, "temporal")
           /\ IF out.kind = "exception"
              THEN /\ pc' = "done"
                   /\ ret' = out
                   /\ UNCHANGED results
              ELSE /\ results' = DictSet(results, "temporal", out.value)
                   /\ pc' = "outliers"
                   /\ UNCHANGED ret
    /\ df' = temporal_caller_frame(df, "timestamp")
    /\ UNCHANGED <<op, args, banner>>

VT_Outliers ==
    /\ op = "validate_test" /\ pc = "outliers"
    /\ results' = DictSet(results, "outliers", outlier_detection(df))
    /\ executed' = Append(executed, "outliers")
    /\ pc' = "sample_size"
    /\ UNCHANGED <<op, df, args, banner, ret>>

VT_SampleSize ==
    /\ op = "validate_test" /\ pc = "sample_size"
    /\ results' = DictSet(results, "sample_size", sample_size_check(df))
    /\ executed' = Append(executed, "sample_size")
    /\ pc' = "report"
    /\ UNCHANGED <<op, df, args, banner, ret>>

VT_Report ==
    /\ op = "validate_test" /\ pc = "report"
    /\ ret' = validate_test_report(results, df)
    /\ pc' = "done"
    /\ UNCHANGED <<op, df, args, results, executed, banner>>

\* ------------------------------------------------------------------------
\* The caller gets the value or the exception; the next call starts afresh
\* ------------------------------------------------------------------------
\* ------------------------------------------------------------------------
\* ExperimentValidator.multiple_testing_correction called on its own
\* ------------------------------------------------------------------------
Call_multiple_testing_correction ==
    /\ op = "idle"
    /\ \E pvalues \in PValueLists, method \in Methods :
         args' = [pvalues |-> pvalues, method |-> method]
    /\ op' = "multiple_testing_correction"
    /\ pc' = "correct"
    /\ UNCHANGED <<df, results, executed, banner, ret>>

MTC_Return ==
    /\ op = "multiple_testing_correction" /\ pc = "correct"
    /\ ret' = multiple_testing_correction(args.pvalues, args.method)
    /\ executed' = Append(executed, "multiple_testing")
    /\ pc' = "done"
    /\ UNCHANGED <<op, df, args, results, banner>>

\* ------------------------------------------------------------------------
\* A check of the validator called on its own
\* ------------------------------------------------------------------------
\* variant counts around the two limits of sample_size_check
SampleSizeChoices == {4479, 4480, 6399, 6400}
SampleSizeVectors == UNION {[1..n -> SampleSizeChoices] : n \in 1..MaxVariants}

Call_sample_size_check ==
    /\ op = "idle"
    /\ \E c \in SampleSizeVectors :
         df' = MkDataset(c, FALSE, [cols |-> <<>>, smd |-> EmptyDict],
                         [dupSessions |-> 0, missing |-> {}, negative |-> {},
                          futureRows |-> 0], 0, [col \in NumericColumns |-> Clean])
    /\ args' = [variant_col |-> "variant"]
    /\ op' = "sample_size_check"
    /\ pc' = "check"
    /\ UNCHANGED <<results, executed, banner, ret>>

SSC_Return ==
    /\ op = "sample_size_check" /\ pc = "check"
    /\ ret' = Returned(sample_size_check(df))
    /\ pc' = "done"
    /\ UNCHANGED <<op, df, args, results, executed, banner>>

\* frames for outlier_detection: the two identifier columns, a text column
\* and up to MaxMetricCols numeric columns, each without outliers, with one
\* or with two
MaxMetricCols == 6
MetricColNames ==
    <<"converted", "clicks", "Revenue", "pages", "duration", "scroll", "items",
      "visits">>
OutlierFrames ==
    UNION { { [MkDataset(<<4000, 4000>>, FALSE, [cols |-> <<>>, smd |-> EmptyDict],
                         [dupSessions |-> 0, missing |-> {}, negative |-> {},
                          futureRows |-> 0], 0, [col \in NumericColumns |-> Clean])
                 EXCEPT !.columns = <<"session_id", "user_id", "variant">>
                                      \o SubSeq(MetricColNames, 1, k),
                        !.numeric = {"session_id", "user_id"}
                                      \cup {MetricColNames[i] : i \in 1..k},
                        !.values = [col \in {"session_id", "user_id"}
                                             \cup {MetricColNames[i] : i \in 1..k} |->
                                      IF col = "session_id" THEN TwoOutliers
                                      ELSE IF col = "user_id" THEN Clean
                                      ELSE v[CHOOSE i \in 1..k : MetricColNames[i] = col]]]
              : v \in [1..k -> {Clean, OneOutlier, TwoOutliers}] }
          : k \in 0..MaxMetricCols }

Call_outlier_detection ==
    /\ op = "idle"
    /\ \E d \in OutlierFrames : df' = d
    /\ args' = [n_cols |-> n_cols]
    /\ op' = "outlier_detection"
    /\ pc' = "check"
    /\ UNCHANGED <<results, executed, banner, ret>>

OD_Return ==
    /\ op = "outlier_detection" /\ pc = "check"
    /\ ret' = Returned(outlier_detection(df))
    /\ pc' = "done"
    /\ UNCHANGED <<op, df, args, results, executed, banner>>

Finish ==
    /\ op # "idle" /\ pc = "done"
    /\ op' = "idle"
    /\ pc' = "idle"
    /\ df' = NoDataset
    /\ args' = NoArgs
    /\ results' = EmptyDict
    /\ executed' = <<>>
    /\ banner' = ""
    /\ ret' = NoReturn

Init ==
    /\ op = "idle"
    /\ pc = "idle"
    /\ df = NoDataset
    /\ args = NoArgs
    /\ results = EmptyDict
    /\ executed = <<>>
    /\ banner = ""
    /\ ret = NoReturn

NextValidation ==
    \/ Call_run_all_validations
    \/ RAV_SRM \/ RAV_Integrity \/ RAV_Balance \/ RAV_Temporal
    \/ RAV_Outliers \/ RAV_SampleSize \/ RAV_Correction \/ RAV_Summary
    \/ Call_validate_test
    \/ VT_SRM \/ VT_Integrity \/ VT_Balance \/ VT_Temporal
    \/ VT_Outliers \/ VT_SampleSize \/ VT_Report
    \/ Call_multiple_testing_correction \/ MTC_Return
    \/ Call_sample_size_check \/ SSC_Return
    \/ Call_outlier_detection \/ OD_Return
    \/ Finish

SpecValidation == Init /\ [][NextValidation]_vars

\* ------------------------------------------------------------------------
\* StatisticalAnalyzer: metric columns
\* ------------------------------------------------------------------------
BINARY == "binary"
CONTINUOUS == "continuous"
COUNT == "count"
CATEGORICAL == "categorical"

\* A column (pd.Series) is its dtype, the set of its distinct non-null values,
\* whether those values are text, and whether it holds nulls.  True / False
\* are the numbers 1 / 0, as they are to Python's == and hash; a float column
\* is written with whole-number values.
NumberSets ==
    { {}, {0}, {1}, {0, 1}, {0, 1, 2}, {3, 7}, {0, 5, 19}, {0, 20}, {-1, 0, 1},
      0..13, 0..14 }
TextSets == { {"a"}, {"a", "b"}, {"0", "1"}, {"a", "b", "c"} }

Columns ==
    [dtype : {"int64", "int32"}, values : NumberSets,
     textual : {FALSE}, hasNull : {FALSE}]
    \cup [dtype : {"float64"}, values : NumberSets,
          textual : {FALSE}, hasNull : BOOLEAN]
    \cup [dtype : {"bool"}, values : SUBSET {0, 1},
          textual : {FALSE}, hasNull : {FALSE}]
    \cup [dtype : {"object", "category"}, values : {{0, 1}, {0, 1, 2}},
          textual : {FALSE}, hasNull : BOOLEAN]
    \cup [dtype : {"object", "category"}, values : TextSets,
          textual : {TRUE}, hasNull : BOOLEAN]

\* metric names
MetricNames ==
    {"revenue", "converted", "Converted", "page_views", "discount",
     "clicked_items", "conversion_count", "time_on_site"}

BinaryKeywords == {"converted", "conversion", "clicked", "bounced", "registered"}
CountKeywords == {"count", "views", "visits", "items", "products"}

\* set(data.dropna().unique()).issubset({0, 1, True, False})
SubsetOfZeroOne(data) == ~data.textual /\ data.values \subseteq {0, 1}

\* data.max() < bound; the max of an empty column is nan, and nan < bound is False
MaxBelow(data, bound) == data.values # {} /\ SetMax(data.values) < bound

\* faulty variant of detect_metric_type: the name patterns are consulted before the data
detect_metric_type_NameFirst(data, metric_name) ==
    LET unique_vals == Cardinality(data.values)
        metric_lower == Lower(metric_name.val)
    IN  IF Truthy(metric_name)
           /\ \E w \in BinaryKeywords : Contains(metric_lower, w) THEN BINARY
        ELSE IF Truthy(metric_name)
           /\ \E w \in CountKeywords : Contains(metric_lower, w) THEN COUNT
        ELSE IF unique_vals = 2 /\ SubsetOfZeroOne(data) THEN BINARY
        ELSE IF data.dtype = "object" \/ data.dtype = "category" THEN CATEGORICAL
        ELSE IF /\ data.dtype \in {"int64", "int32"}
                /\ \A v \in data.values : v >= 0
                /\ MaxBelow(data, 20) /\ unique_vals < 15 THEN COUNT
        ELSE CONTINUOUS

\* faulty variant of detect_metric_type: the final `return MetricType.CONTINUOUS` is
\* missing, so the function falls off its end
detect_metric_type_NoDefault(data, metric_name) ==
    LET unique_vals == Cardinality(data.values)
        metric_lower == Lower(metric_name.val)
    IN  IF unique_vals = 2 /\ SubsetOfZeroOne(data) THEN BINARY
        ELSE IF data.dtype = "object" \/ data.dtype = "category" THEN CATEGORICAL
        ELSE IF /\ data.dtype \in {"int64", "int32"}
                /\ \A v \in data.values : v >= 0
                /\ MaxBelow(data, 20) /\ unique_vals < 15 THEN COUNT
        ELSE IF Truthy(metric_name)
                /\ \E w \in BinaryKeywords : Contains(metric_lower, w) THEN BINARY
        ELSE IF Truthy(metric_name)
                /\ \E w \in CountKeywords : Contains(metric_lower, w) THEN COUNT
        ELSE "None"

detect_metric_type(data, metric_name) ==
    LET unique_vals == Cardinality(data.values)
        metric_lower == Lower(metric_name.val)
    IN  \* binary (0/1 or True/False)
        IF unique_vals = 2 /\ SubsetOfZeroOne(data) THEN BINARY
        \* categorical
        ELSE IF data.dtype = "object" \/ data.dtype = "category" THEN CATEGORICAL
        \* count data (non-negative small integers)
        ELSE IF /\ data.dtype \in {"int64", "int32"}
                /\ \A v \in data.values : v >= 0
                /\ MaxBelow(data, 20) /\ unique_vals < 15 THEN COUNT
        \* common metric name patterns
        ELSE IF Truthy(metric_name)
                /\ \E w \in BinaryKeywords : Contains(metric_lower, w) THEN BINARY
        ELSE IF Truthy(metric_name)
                /\ \E w \in CountKeywords : Contains(metric_lower, w) THEN COUNT
        ELSE CONTINUOUS

\* ------------------------------------------------------------------------
\* check_normality
\* ------------------------------------------------------------------------
Abs(x) == IF x < 0 THEN -x ELSE x

\* sample_threshold: int = 5000
sample_threshold == 5000

\* What the scipy calls report on the column: its non-null length n, the
\* Shapiro-Wilk p-value (thousandths), the Anderson-Darling statistic and its
\* 5% critical value (thousandths), the skewness (thousandths).
NormalityFacts ==
    [n : {200, 5000}, shapiro_p : {10, 50, 300}, ad_statistic : {500, 787, 900},
     ad_critical : {787}, skewness : {-2500, -1500, -500, 0, 1000, 2000, 2500}]

\* faulty variant of check_normality: the skewness adds the note only
check_normality_NoOverride(f) ==
    LET formal == IF f.n < sample_threshold
                  THEN [test_used |-> "Shapiro-Wilk", statistic |-> 0,
                        p_value |-> f.shapiro_p, is_normal |-> f.shapiro_p > 50]
                  ELSE [test_used |-> "Anderson-Darling", statistic |-> f.ad_statistic,
                        p_value |-> -1, is_normal |-> f.ad_statistic < f.ad_critical]
        severe == Abs(f.skewness) > 2000
    IN  [is_normal |-> formal.is_normal,
         test_used |-> formal.test_used,
         statistic |-> formal.statistic,
         p_value |-> formal.p_value,
         skewness |-> f.skewness,
         note |-> IF severe THEN "Severe skewness detected" ELSE ""]

check_normality(f) ==
    LET formal == IF f.n < sample_threshold
                  THEN [test_used |-> "Shapiro-Wilk", statistic |-> 0,
                        p_value |-> f.shapiro_p, is_normal |-> f.shapiro_p > 50]
                  ELSE [test_used |-> "Anderson-Darling", statistic |-> f.ad_statistic,
                        p_value |-> -1, is_normal |-> f.ad_statistic < f.ad_critical]
        severe == Abs(f.skewness) > 2000
    IN  [is_normal |-> IF severe THEN FALSE ELSE formal.is_normal,
         test_used |-> formal.test_used,
         statistic |-> formal.statistic,
         p_value |-> formal.p_value,
         skewness |-> f.skewness,
         note |-> IF severe THEN "Severe skewness detected" ELSE ""]

\* ------------------------------------------------------------------------
\* The tests
\* ------------------------------------------------------------------------
\* def __init__(self, alpha: float = 0.05), in thousandths
alpha == 50

\* np.nan where a p-value or a rate is expected; every comparison with it is
\* False
NaN == -1
IsNaN(x) == x = NaN
\* a < b, a >= b on floats
FLess(a, b) == ~IsNaN(a) /\ ~IsNaN(b) /\ a < b
FGeq(a, b) == ~IsNaN(a) /\ ~IsNaN(b) /\ a >= b

\* a quotient of two counts, kept exact
Frac(num, den) == [nan |-> FALSE, num |-> num, den |-> den]
NaNFrac == [nan |-> TRUE, num |-> 0, den |-> 1]

\* len(df[variant_col].unique()): unique() keeps a null as one more value,
\* nunique() does not count it
UniqueVariants(d) == d.variant_nunique + (IF d.variant_has_null THEN 1 ELSE 0)

\* two-sided p-value (thousandths) of a standard normal statistic, from its
\* square in thousandths; each row stands for the p-values of its interval
NormalTwoSided(z2) ==
    IF z2 > 10828 THEN 0
    ELSE IF z2 > 6635 THEN 5
    ELSE IF z2 > 5024 THEN 20
    ELSE IF z2 > 3841 THEN 40
    ELSE IF z2 > 2706 THEN 80
    ELSE IF z2 > 1323 THEN 200
    ELSE IF z2 > 455 THEN 400
    ELSE 700

\* faulty variant of proportions_ztest: a one-sided p-value
proportions_ztest_OneSided(g) ==
    LET c == g.successes_A + g.successes_B
        n == g.nobs_A + g.nobs_B
        num == g.successes_A * g.nobs_B - g.successes_B * g.nobs_A
        two == NormalTwoSided(
                   (num * num * n * 1000) \div (g.nobs_A * g.nobs_B * c * (n - c)))
    IN  IF c = 0 \/ c = n THEN [z_sign |-> "nan", p_value |-> NaN]
        ELSE [z_sign |-> IF num > 0 THEN "+" ELSE IF num < 0 THEN "-" ELSE "0",
              p_value |-> IF num > 0 THEN two \div 2 ELSE 1000 - two \div 2]

\* proportions_ztest(counts, nobs): pooled two-sample z-test; the sign of z
\* and the p-value.  With no success or no failure at all the pooled
\* standard error is 0 and both are nan.
proportions_ztest(g) ==
    LET c == g.successes_A + g.successes_B
        n == g.nobs_A + g.nobs_B
        \* prop_A - prop_B, times nobs_A * nobs_B
        num == g.successes_A * g.nobs_B - g.successes_B * g.nobs_A
    IN  IF c = 0 \/ c = n THEN [z_sign |-> "nan", p_value |-> NaN]
        ELSE [z_sign |-> IF num > 0 THEN "+" ELSE IF num < 0 THEN "-" ELSE "0",
              p_value |-> NormalTwoSided(
                  (num * num * n * 1000) \div (g.nobs_A * g.nobs_B * c * (n - c)))]

\* faulty variant of _interpret_proportion_test: the lift is formatted with a
\* conversion that does not accept nan
interpret_proportion_test_IntLift(rate_A, rate_B, p_value, relative_lift) ==
    IF FGeq(p_value, alpha)
    THEN Returned([form |-> "No significant difference", direction |-> "",
                   lift |-> ""])
    ELSE IF relative_lift.nan THEN Raised("ValueError")
    ELSE Returned([form |-> "Variant B has significantly",
                   direction |-> IF rate_B.num * rate_A.den > rate_A.num * rate_B.den
                                 THEN "higher" ELSE "lower",
                   lift |-> "pct"])

\* _interpret_proportion_test: the f-string formats nan as "nan"
interpret_proportion_test(rate_A, rate_B, p_value, relative_lift) ==
    IF FGeq(p_value, alpha)
    THEN Returned([form |-> "No significant difference", direction |-> "",
                   lift |-> ""])
    ELSE Returned([form |-> "Variant B has significantly",
                   direction |-> IF rate_B.num * rate_A.den > rate_A.num * rate_B.den
                                 THEN "higher" ELSE "lower",
                   lift |-> IF relative_lift.nan THEN "nan" ELSE "pct"])

two_proportion_test(d) ==
    IF UniqueVariants(d) # 2 THEN Raised("ValueError")
    \* the group of a null label is empty: 1/nobs_A + 1/nobs_B divides by zero
    ELSE IF d.variant_has_null THEN Raised("ZeroDivisionError")
    ELSE LET g == d.groups
             prop_A == Frac(g.successes_A, g.nobs_A)
             prop_B == Frac(g.successes_B, g.nobs_B)
             zt == proportions_ztest(g)
             \* diff = prop_B - prop_A
             diff == Frac(g.successes_B * g.nobs_A - g.successes_A * g.nobs_B,
                          g.nobs_A * g.nobs_B)
             \* (diff / prop_A) if prop_A > 0 else np.nan
             relative_lift == IF g.successes_A > 0
                              THEN Frac(diff.num * prop_A.den, diff.den * prop_A.num)
                              ELSE NaNFrac
             interpretation ==
                 interpret_proportion_test(prop_A, prop_B, zt.p_value, relative_lift)
         IN  IF interpretation.kind = "exception" THEN interpretation
             ELSE Returned(
               [test_type |-> "Two-Proportion Z-Test",
                n_A |-> g.nobs_A, n_B |-> g.nobs_B,
                successes_A |-> g.successes_A, successes_B |-> g.successes_B,
                rate_A |-> prop_A, rate_B |-> prop_B,
                z_sign |-> zt.z_sign,
                p_value |-> zt.p_value,
                significant |-> FLess(zt.p_value, alpha),
                absolute_difference |-> diff,
                relative_lift |-> relative_lift,
                interpretation |-> interpretation.value])

\* _interpret_continuous_test, _interpret_mann_whitney, _interpret_chi_square:
\* which of the two sentences
interpret_continuous_test(p_value) ==
    [form |-> IF FGeq(p_value, alpha) THEN "No significant difference"
              ELSE "Variant B has significantly"]
interpret_mann_whitney(p_value) ==
    [form |-> IF FGeq(p_value, alpha) THEN "No significant difference in distributions"
              ELSE "Variant B has significantly"]
interpret_chi_square(p_value) ==
    [form |-> IF FGeq(p_value, alpha) THEN "No association between variant and outcome"
              ELSE "Significant association found"]

\* the continuous tests drop the metric's nulls per group and hand the groups
\* to scipy, whose p-value is d.scipy_p
welch_t_test(d) ==
    IF UniqueVariants(d) # 2 THEN Raised("ValueError")
    ELSE Returned([test_type |-> "Welch's t-test", p_value |-> d.scipy_p,
                   significant |-> FLess(d.scipy_p, alpha),
                   interpretation |-> interpret_continuous_test(d.scipy_p)])

mann_whitney_test(d) ==
    IF UniqueVariants(d) # 2 THEN Raised("ValueError")
    ELSE Returned([test_type |-> "Mann-Whitney U Test", p_value |-> d.scipy_p,
                   significant |-> FLess(d.scipy_p, alpha),
                   interpretation |-> interpret_mann_whitney(d.scipy_p)])

\* the pairs of positions in variant_list, and the p-values (thousandths)
\* mannwhitneyu reports for them
VariantPairs ==
    {p \in (1..(MaxVariants + 1)) \X (1..(MaxVariants + 1)) : p[1] < p[2]}
PairPChoices ==
    << [p \in VariantPairs |-> 400],
       [p \in VariantPairs |-> IF p[1] = 1 THEN 10 ELSE 400],
       [p \in VariantPairs |-> 10] >>

\* for i in range(len(variant_list)): for j in range(i+1, len(variant_list)):
\* one record per pair, with mannwhitneyu's p-value as it is
RECURSIVE PairwiseLoop(_, _, _, _)
PairwiseLoop(d, i, j, k) ==
    IF i > k THEN <<>>
    ELSE IF j > k THEN PairwiseLoop(d, i + 1, i + 2, k)
    ELSE <<[variant_1 |-> i, variant_2 |-> j, p_value |-> d.pair_p[<<i, j>>]]>>
           \o PairwiseLoop(d, i, j + 1, k)

\* _interpret_kruskal
interpret_kruskal(p_value, pairwise_results) ==
    IF FGeq(p_value, alpha)
    THEN [form |-> "No significant difference among variants", n_sig_pairs |-> 0]
    ELSE [form |-> "Significant difference detected",
          n_sig_pairs |-> Cardinality({n \in DOMAIN pairwise_results :
                                         FLess(pairwise_results[n].p_value, alpha)})]

\* faulty variant of kruskal_wallis_test: post-hoc comparisons only after a
\* significant omnibus test
kruskal_wallis_test_PostHocIfSignificant(d) ==
    IF UniqueVariants(d) < 3 THEN Raised("ValueError")
    ELSE LET pairwise_results ==
                 IF FLess(d.scipy_p, alpha)
                 THEN PairwiseLoop(d, 1, 2, UniqueVariants(d)) ELSE <<>>
         IN  Returned([test_type |-> "Kruskal-Wallis H-Test",
                       n_variants |-> UniqueVariants(d), p_value |-> d.scipy_p,
                       significant |-> FLess(d.scipy_p, alpha),
                       pairwise_comparisons |-> pairwise_results,
                       interpretation |-> interpret_kruskal(d.scipy_p, pairwise_results)])

\* faulty variant of kruskal_wallis_test: the guard asks for 2+ variants
kruskal_wallis_test_TwoOrMore(d) ==
    IF UniqueVariants(d) < 2 THEN Raised("ValueError")
    ELSE Returned([test_type |-> "Kruskal-Wallis H-Test",
                   n_variants |-> UniqueVariants(d), p_value |-> d.scipy_p,
                   significant |-> FLess(d.scipy_p, alpha)])

kruskal_wallis_test(d) ==
    IF UniqueVariants(d) < 3 THEN Raised("ValueError")
    ELSE LET pairwise_results == PairwiseLoop(d, 1, 2, UniqueVariants(d))
         IN  Returned([test_type |-> "Kruskal-Wallis H-Test",
                       n_variants |-> UniqueVariants(d), p_value |-> d.scipy_p,
                       significant |-> FLess(d.scipy_p, alpha),
                       pairwise_comparisons |-> pairwise_results,
                       interpretation |-> interpret_kruskal(d.scipy_p, pairwise_results)])

\* no requirement on the variants: crosstab and chi2_contingency take any table
chi_square_test(d) ==
    Returned([test_type |-> "Chi-Square Test", p_value |-> d.scipy_p,
              significant |-> FLess(d.scipy_p, alpha),
              interpretation |-> interpret_chi_square(d.scipy_p)])

RunTest(test, d) ==
    CASE test = "two_proportion_test" -> two_proportion_test(d)
      [] test = "welch_t_test" -> welch_t_test(d)
      [] test = "mann_whitney_test" -> mann_whitney_test(d)
      [] test = "kruskal_wallis_test" -> kruskal_wallis_test(d)
      [] test = "chi_square_test" -> chi_square_test(d)

\* ------------------------------------------------------------------------
\* select_and_run_test
\* ------------------------------------------------------------------------
\* faulty variant of SelectTest: the count branch reuses the parametric choice
SelectTest_CountAsParametric(metric_type, variant_count, normality) ==
    IF metric_type = BINARY
    THEN IF variant_count = 2 THEN "two_proportion_test" ELSE "chi_square_test"
    ELSE IF metric_type = CONTINUOUS
    THEN IF normality.is_normal /\ Abs(normality.skewness) < 1000
         THEN IF variant_count = 2 THEN "welch_t_test" ELSE "kruskal_wallis_test"
         ELSE IF variant_count = 2 THEN "mann_whitney_test" ELSE "kruskal_wallis_test"
    ELSE IF metric_type = COUNT
    THEN IF variant_count = 2 THEN "welch_t_test" ELSE "kruskal_wallis_test"
    ELSE "chi_square_test"

\* faulty variant of SelectTest: a count metric always goes to Kruskal-Wallis
SelectTest_CountToKruskal(metric_type, variant_count, normality) ==
    IF metric_type = BINARY
    THEN IF variant_count = 2 THEN "two_proportion_test" ELSE "chi_square_test"
    ELSE IF metric_type = CONTINUOUS
    THEN IF normality.is_normal /\ Abs(normality.skewness) < 1000
         THEN IF variant_count = 2 THEN "welch_t_test" ELSE "kruskal_wallis_test"
         ELSE IF variant_count = 2 THEN "mann_whitney_test" ELSE "kruskal_wallis_test"
    ELSE IF metric_type = COUNT
    THEN "kruskal_wallis_test"
    ELSE "chi_square_test"

\* the if / elif chain on metric_type and variant_count
SelectTest(metric_type, variant_count, normality) ==
    IF metric_type = BINARY
    THEN IF variant_count = 2 THEN "two_proportion_test" ELSE "chi_square_test"
    ELSE IF metric_type = CONTINUOUS
    THEN IF normality.is_normal /\ Abs(normality.skewness) < 1000
         THEN IF variant_count = 2 THEN "welch_t_test" ELSE "kruskal_wallis_test"
         ELSE IF variant_count = 2 THEN "mann_whitney_test" ELSE "kruskal_wallis_test"
    ELSE IF metric_type = COUNT
    THEN IF variant_count = 2 THEN "mann_whitney_test" ELSE "kruskal_wallis_test"
    ELSE "chi_square_test"

NoNormality == [is_normal |-> FALSE, skewness |-> 0, test_used |-> "none"]

\* rows and sum of the metric in the first two variants' groups
GroupStats ==
    { [nobs_A |-> 10, successes_A |-> 0, nobs_B |-> 10, successes_B |-> 0],
      [nobs_A |-> 10, successes_A |-> 10, nobs_B |-> 10, successes_B |-> 10],
      [nobs_A |-> 10, successes_A |-> 0, nobs_B |-> 10, successes_B |-> 5],
      [nobs_A |-> 10, successes_A |-> 5, nobs_B |-> 10, successes_B |-> 0],
      [nobs_A |-> 10, successes_A |-> 3, nobs_B |-> 20, successes_B |-> 9],
      [nobs_A |-> 10, successes_A |-> 4, nobs_B |-> 10, successes_B |-> 5] }

\* the group sums a column can have: a 0/1 column has a success iff it holds
\* a 1 and a failure iff it holds a 0; the sums of other columns are not
\* looked at by the test chosen for them
GroupsOf(column) ==
    IF ~column.textual /\ column.values \subseteq {0, 1}
    THEN {g \in GroupStats :
            LET c == g.successes_A + g.successes_B
                n == g.nobs_A + g.nobs_B
            IN  /\ (c > 0) = (1 \in column.values)
                /\ (c < n) = (0 \in column.values \/ column.values = {})}
    ELSE {[nobs_A |-> 10, successes_A |-> 3, nobs_B |-> 20, successes_B |-> 9]}

\* p-values (thousandths) scipy reports for the metric
ScipyPValues == {10, 50, 400}

\* the frames the tests are called with: the variant column's distinct
\* labels and nulls, the metric column, its group sums and scipy's p-value
MetricFrames(c) ==
    [variant_nunique : 1..MaxVariants, variant_has_null : BOOLEAN,
     column : {c}, groups : GroupsOf(c), scipy_p : ScipyPValues,
     pair_p : {PairPChoices[1]}]

Call_detect_metric_type ==
    /\ op = "idle"
    /\ \E data \in Columns, name \in {None} \cup {Some(m) : m \in MetricNames} :
         args' = [data |-> data, metric_name |-> name]
    /\ op' = "detect_metric_type"
    /\ pc' = "classify"
    /\ UNCHANGED <<df, results, executed, banner, ret>>

DMT_Return ==
    /\ op = "detect_metric_type" /\ pc = "classify"
    /\ ret' = Returned(detect_metric_type(args.data, args.metric_name))
    /\ pc' = "done"
    /\ UNCHANGED <<op, df, args, results, executed, banner>>

\* force_test: omitted, or the name of a test
ForceTestArgs == {None, Some("chi_square_test"), Some("mann_whitney_test")}

\* check_normality called on its own
Call_check_normality ==
    /\ op = "idle"
    /\ \E f \in NormalityFacts : args' = [data |-> f]
    /\ op' = "check_normality"
    /\ pc' = "test"
    /\ UNCHANGED <<df, results, executed, banner, ret>>

CN_Return ==
    /\ op = "check_normality" /\ pc = "test"
    /\ ret' = Returned(check_normality(args.data))
    /\ pc' = "done"
    /\ UNCHANGED <<op, df, args, results, executed, banner>>

Call_select_and_run_test ==
    /\ op = "idle"
    /\ \E c \in Columns, m \in MetricNames : \E d \in MetricFrames(c) :
         \E force \in ForceTestArgs :
         /\ df' = d
         /\ args' = [metric |-> m, variant_col |-> "variant", force_test |-> force]
    /\ op' = "select_and_run_test"
    /\ pc' = "classify"
    /\ UNCHANGED <<results, executed, banner, ret>>

\* variant_count, metric_type and the head of the result dict
SRT_Classify ==
    /\ op = "select_and_run_test" /\ pc = "classify"
    /\ LET variant_count == df.variant_nunique
           metric_type == detect_metric_type(df.column, Some(args.metric))
       IN  /\ results' = [metric |-> args.metric, metric_type |-> metric_type,
                          n_variants |-> variant_count]
           /\ pc' = IF metric_type = CONTINUOUS THEN "normality" ELSE "dispatch"
    /\ executed' = Append(executed, "detect_metric_type")
    /\ UNCHANGED <<op, df, args, banner, ret>>

SRT_Normality ==
    /\ op = "select_and_run_test" /\ pc = "normality"
    /\ \E f \in NormalityFacts :
         results' = DictSet(results, "normality_check", check_normality(f))
    /\ executed' = Append(executed, "check_normality")
    /\ pc' = "dispatch"
    /\ UNCHANGED <<op, df, args, banner, ret>>

SRT_Dispatch ==
    /\ op = "select_and_run_test" /\ pc = "dispatch"
    /\ LET normality == IF "normality_check" \in DOMAIN results
                        THEN results["normality_check"] ELSE NoNormality
           test == SelectTest(results["metric_type"], results["n_variants"], normality)
           out == RunTest(test, df)
       IN  /\ executed' = Append(executed, test)
           /\ IF out.kind = "exception"
              THEN /\ ret' = out
                   /\ UNCHANGED results
              ELSE \* result.update(test_result); return result
                   /\ results' = DictUpdate(results, out.value)
                   /\ ret' = Returned(results')
    /\ pc' = "done"
    /\ UNCHANGED <<op, df, args, banner>>

\* ------------------------------------------------------------------------
\* StatisticalAnalyzer.multiple_testing_correction
\* ------------------------------------------------------------------------
Analyzer_multiple_testing_correction(p_values, method) ==
    LET out == multipletests(p_values, alpha, method) IN
    IF out.kind = "exception" THEN out
    ELSE Returned(
           [method |-> method,
            n_tests |-> Len(p_values),
            original_alpha |-> alpha,
            adjusted_alpha |-> IF method = "bonferroni"
                               THEN Some(Frac(alpha, Len(p_values))) ELSE None,
            original_p_values |-> p_values,
            corrected_p_values |-> out.value.pvals_corrected,
            reject_null |-> out.value.reject,
            n_significant |-> CountTrue(out.value.reject)])

Call_Analyzer_multiple_testing_correction ==
    /\ op = "idle"
    /\ \E p_values \in PValueLists, method \in Methods :
         args' = [p_values |-> p_values, method |-> method]
    /\ op' = "Analyzer.multiple_testing_correction"
    /\ pc' = "correct"
    /\ UNCHANGED <<df, results, executed, banner, ret>>

AMTC_Return ==
    /\ op = "Analyzer.multiple_testing_correction" /\ pc = "correct"
    /\ ret' = Analyzer_multiple_testing_correction(args.p_values, args.method)
    /\ executed' = Append(executed, "multiple_testing_correction")
    /\ pc' = "done"
    /\ UNCHANGED <<op, df, args, results, banner>>

\* ------------------------------------------------------------------------
\* run_test_analysis (run_statistical_tests.py)
\* ------------------------------------------------------------------------
\* select_and_run_test as run_test_analysis calls it: the value it returns or
\* the exception it lets through (KeyError when the frame has no such column)
select_and_run_test(d, metric, f) ==
    IF ~d.present THEN Raised("KeyError")
    ELSE LET variant_count == d.variant_nunique
             metric_type == detect_metric_type(d.column, Some(metric))
             head == [metric |-> metric, metric_type |-> metric_type,
                      n_variants |-> variant_count]
             normality == IF metric_type = CONTINUOUS
                          THEN check_normality(f) ELSE NoNormality
             result == IF metric_type = CONTINUOUS
                       THEN DictSet(head, "normality_check", normality) ELSE head
             out == RunTest(SelectTest(metric_type, variant_count, normality), d)
         IN  IF out.kind = "exception" THEN out
             ELSE Returned(DictUpdate(result, out.value))

Normal == [n |-> 200, shapiro_p |-> 300, ad_statistic |-> 500,
           ad_critical |-> 787, skewness |-> 0]
Skewed == [n |-> 200, shapiro_p |-> 10, ad_statistic |-> 900,
           ad_critical |-> 787, skewness |-> 2500]
TwoGroups(sA, sB) ==
    [nobs_A |-> 10, successes_A |-> sA, nobs_B |-> 10, successes_B |-> sB]
NumberColumn(dtype, values) ==
    [dtype |-> dtype, values |-> values, textual |-> FALSE, hasNull |-> FALSE]

\* the metrics of an experiment: the name get_test_metrics lists, whether the
\* loaded frame has the column, the column, and what the libraries report
\* on it
MetricChoices ==
    << [name |-> "added_to_cart", present |-> FALSE,
        column |-> NumberColumn("int64", {0, 1}), groups |-> TwoGroups(4, 5),
        scipy_p |-> 400, normality |-> Normal],
       [name |-> "converted", present |-> TRUE,
        column |-> NumberColumn("int64", {0, 1}), groups |-> TwoGroups(0, 5),
        scipy_p |-> 10, normality |-> Normal],
       [name |-> "revenue", present |-> TRUE,
        column |-> NumberColumn("float64", {3, 7}), groups |-> TwoGroups(3, 5),
        scipy_p |-> 50, normality |-> Normal],
       [name |-> "pages_viewed", present |-> TRUE,
        column |-> NumberColumn("int64", {0, 5, 19}), groups |-> TwoGroups(3, 5),
        scipy_p |-> 20, normality |-> Normal],
       [name |-> "avg_product_price", present |-> TRUE,
        column |-> NumberColumn("float64", {0, 20}), groups |-> TwoGroups(3, 5),
        scipy_p |-> 30, normality |-> Skewed],
       [name |-> "slider_interactions", present |-> TRUE,
        column |-> [dtype |-> "object", values |-> {"a", "b"}, textual |-> TRUE,
                    hasNull |-> FALSE],
        groups |-> TwoGroups(3, 5), scipy_p |-> 400, normality |-> Normal] >>

MaxMetrics == 3

\* the frame of variants and one metric column that a test sees
MetricFrame(d, m) ==
    [variant_nunique |-> d.variant_nunique, variant_has_null |-> d.variant_has_null,
     present |-> m.present, column |-> m.column, groups |-> m.groups,
     scipy_p |-> m.scipy_p, pair_p |-> PairPChoices[1]]

\* df = load_test_data(...); metrics = get_test_metrics(test_id);
\* test_results = []; p_values = []
Call_run_test_analysis ==
    /\ op = "idle"
    /\ \E nv \in 2..MaxVariants, hn \in BOOLEAN, n \in 0..MaxMetrics :
         \E ms \in [1..n -> 1..Len(MetricChoices)] :
           /\ df' = [variant_nunique |-> nv, variant_has_null |-> hn,
                     metrics |-> [i \in 1..n |-> MetricChoices[ms[i]]]]
           /\ pc' = IF n = 0 THEN "correction" ELSE "loop"
    /\ op' = "run_test_analysis"
    /\ args' = [test_id |-> "test"]
    /\ results' = [test_results |-> <<>>, p_values |-> <<>>]
    /\ UNCHANGED <<executed, banner, ret>>

\* one turn of `for metric in metrics:`; an exception skips the metric
RTA_Metric ==
    /\ op = "run_test_analysis" /\ pc = "loop"
    /\ LET i == Cardinality({k \in 1..Len(executed) :
                                executed[k] = "select_and_run_test"}) + 1
           m == df.metrics[i]
           out == select_and_run_test(MetricFrame(df, m), m.name, m.normality)
       IN  /\ results' = IF out.kind = "exception" THEN results
                         ELSE [results EXCEPT
                                 !["test_results"] = Append(@, out.value),
                                 !["p_values"] = Append(@, out.value.p_value)]
           /\ pc' = IF i = Len(df.metrics) THEN "correction" ELSE "loop"
    /\ executed' = Append(executed, "select_and_run_test")
    /\ UNCHANGED <<op, df, args, banner, ret>>

\* faulty variant of RTA_Correction: the correction is applied inside the loop, as
\* soon as two p-values are there
RTA_Correction_InLoop ==
    /\ op = "run_test_analysis" /\ pc = "loop"
    /\ Len(results["p_values"]) > 1
    /\ "correction_results" \notin DOMAIN results
    /\ results' = DictSet(results, "correction_results",
            Analyzer_multiple_testing_correction(results["p_values"], "holm").value)
    /\ executed' = Append(executed, "multiple_testing_correction")
    /\ UNCHANGED <<op, pc, df, args, banner, ret>>

\* if len(p_values) > 1: Holm; else the hand-made result with method 'none'
RTA_Correction ==
    /\ op = "run_test_analysis" /\ pc = "correction"
    /\ LET p_values == results["p_values"] IN
       IF Len(p_values) > 1
       THEN /\ results' = DictSet(results, "correction_results",
                    Analyzer_multiple_testing_correction(p_values, "holm").value)
            /\ executed' = Append(executed, "multiple_testing_correction")
       ELSE /\ results' = DictSet(results, "correction_results",
                    [method |-> "none",
                     n_tests |-> Len(p_values),
                     original_alpha |-> 50,
                     original_p_values |-> p_values,
                     corrected_p_values |-> p_values,
                     reject_null |-> [i \in 1..Len(p_values) |-> p_values[i] < 50],
                     n_significant |->
                         Cardinality({i \in 1..Len(p_values) : p_values[i] < 50})])
            /\ UNCHANGED executed
    /\ pc' = "report"
    /\ UNCHANGED <<op, df, args, banner, ret>>

\* save_test_report pairs the i-th corrected p-value with test_results[i];
\* then the summary record is returned
RTA_Report ==
    /\ op = "run_test_analysis" /\ pc = "report"
    /\ LET test_results == results["test_results"]
           correction_results == results["correction_results"]
           lines == [i \in 1..Len(correction_results.original_p_values) |->
                       [metric_name |-> IF i <= Len(test_results)
                                        THEN test_results[i].metric ELSE "Test",
                        orig_p |-> correction_results.original_p_values[i],
                        corr_p |-> correction_results.corrected_p_values[i],
                        reject |-> correction_results.reject_null[i]]]
       IN  /\ results' = DictSet(results, "report", lines)
           /\ ret' = Returned(
                [n_metrics |-> Len(df.metrics),
                 n_significant_before |->
                     Cardinality({i \in 1..Len(test_results) :
                                    test_results[i].significant}),
                 n_significant_after |-> correction_results.n_significant,
                 results |-> test_results,
                 correction |-> correction_results])
    /\ executed' = Append(executed, "save_test_report")
    /\ pc' = "done"
    /\ UNCHANGED <<op, df, args, banner>>

\* ------------------------------------------------------------------------
\* A test of the library called on its own
\* ------------------------------------------------------------------------
TestLibrary ==
    {"two_proportion_test", "welch_t_test", "mann_whitney_test",
     "kruskal_wallis_test", "chi_square_test"}

\* the four numeric tests are given a numeric metric column
Call_test ==
    /\ op = "idle"
    /\ \E c \in Columns, t \in TestLibrary : \E d \in MetricFrames(c) :
         \E pp \in DOMAIN PairPChoices :
         /\ ~c.textual \/ t = "chi_square_test"
         \* the pairwise p-values matter to the one test that computes them
         /\ t = "kruskal_wallis_test" \/ pp = 1
         /\ df' = [d EXCEPT !.pair_p = PairPChoices[pp]]
         /\ args' = [test |-> t, variant_col |-> "variant"]
    /\ op' = "test"
    /\ pc' = "run"
    /\ UNCHANGED <<results, executed, banner, ret>>

Test_Run ==
    /\ op = "test" /\ pc = "run"
    /\ ret' = RunTest(args.test, df)
    /\ executed' = Append(executed, args.test)
    /\ pc' = "done"
    /\ UNCHANGED <<op, df, args, results, banner>>

NextAnalysis ==
    \/ Call_detect_metric_type \/ DMT_Return
    \/ Call_check_normality \/ CN_Return
    \/ Call_select_and_run_test
    \/ SRT_Classify \/ SRT_Normality \/ SRT_Dispatch
    \/ Call_test \/ Test_Run
    \/ Call_Analyzer_multiple_testing_correction \/ AMTC_Return
    \/ Call_run_test_analysis \/ RTA_Metric \/ RTA_Correction \/ RTA_Report
    \/ Finish

SpecAnalysis == Init /\ [][NextAnalysis]_vars

Next == NextValidation \/ NextAnalysis

Spec == Init /\ [][Next]_vars

\* ========================================================================
\* Properties of the validation suite
\* ========================================================================
InRAV == op = "run_all_validations"
InVT == op = "validate_test"
Ran(c) == \E i \in 1..Len(executed) : executed[i] = c
Has(k) == k \in DOMAIN results
\* the SRM p-value of the dataset is below 0.001
SrmHardFailure == PValue(df.counts) = "[0,0.001)"
\* the argument names at least one covariate / a date column
Supplied(o) == ~o.isNone /\ Len(o.val) >= 1

\* C1: in run_all_validations, once the SRM test has run on a dataset whose
\* p-value is below srm_threshold, the run is over: SRM is the only check
\* that was executed, and the value returned is the result set holding the
\* SRM finding alone, with passed = False.
C1_SrmHardFailureStops ==
    (InRAV /\ pc # "srm" /\ SrmHardFailure) =>
        /\ pc = "done"
        /\ executed = <<"srm">>
        /\ ret = Returned(results)
        /\ DOMAIN results = {"srm"}
        /\ results["srm"].passed = FALSE
        /\ results["srm"].has_srm = TRUE

\* a run that was given covariates, a date column and p-values, and stopped
\* on the SRM failure
C1_Witness ==
    /\ InRAV /\ pc = "done" /\ SrmHardFailure
    /\ Supplied(args.covariates) /\ Supplied(args.date_col)
    /\ Supplied(args.metric_pvalues)

\* C2 (as stated): when SRM or data integrity fails in a run, every check
\* after it in the run order is skipped: the failed critical check is the
\* last check executed.
C2_CriticalFailureGates ==
    InRAV =>
        /\ (Has("srm") /\ ~results["srm"].passed
              => executed[Len(executed)] = "srm")
        /\ (Has("data_integrity") /\ ~results["data_integrity"].passed
              => executed[Len(executed)] = "data_integrity")

\* C2 (amended): only the SRM hard failure gates the remaining checks.  After
\* a failed data-integrity check the run goes on: at least one further check
\* is executed before the run ends, a run that returns has executed outlier
\* detection and the sample-size check, and its banner is
\* CRITICAL VALIDATION FAILURES.
C2_OnlySrmGates ==
    InRAV =>
        /\ (Has("srm") /\ ~results["srm"].passed => executed = <<"srm">>)
        /\ (Has("data_integrity") /\ ~results["data_integrity"].passed /\ pc = "done"
              => /\ Len(executed) >= 3
                 /\ executed[3] \in {"balance", "temporal", "outliers"}
                 /\ (ret.kind = "value"
                       => /\ Ran("outliers") /\ Ran("sample_size")
                          /\ banner = "CRITICAL VALIDATION FAILURES"))

\* a run that returned after a failed data-integrity check
C2_Witness ==
    /\ InRAV /\ pc = "done" /\ ret.kind = "value"
    /\ Has("data_integrity") /\ results["data_integrity"].status = "FAIL"

\* the outcome an SRM finding reports: the CRITICAL warning, or the
\* "No SRM detected" message; a third form would be a WARN
SrmReported(f) ==
    IF f.has_srm /\ f.text_key = "warning" THEN "FAIL"
    ELSE IF f.passed /\ f.text = "No SRM detected. Allocation is as expected." THEN "PASS"
    ELSE "WARN"

\* C3 (as stated): the SRM finding is FAIL when p < 0.001, WARN when
\* 0.001 <= p < 0.05 and PASS when p >= 0.05; 5,100 / 4,900 is a WARN.
C3_SrmThreeOutcomes ==
    (Has("srm") /\ results["srm"].pvalue # "nan") =>
        SrmReported(results["srm"]) =
            CASE results["srm"].pvalue = "[0,0.001)" -> "FAIL"
              [] results["srm"].pvalue = "[0.001,0.05)" -> "WARN"
              [] results["srm"].pvalue = "[0.05,1]" -> "PASS"

\* the verdict a finished call announces
Verdict ==
    IF InRAV
    THEN CASE banner = "ALL VALIDATION CHECKS PASSED" -> "VALID"
           [] banner = "CRITICAL CHECKS PASSED, MINOR WARNINGS DETECTED" -> "CAUTION"
           [] banner = "CRITICAL VALIDATION FAILURES" -> "INVALID"
           [] banner = SrmBanner -> "INVALID"
           [] OTHER -> "none"
    ELSE IF InVT /\ ret.kind = "value" THEN ret.value.validity
    ELSE "none"

IntegrityKey == IF InVT THEN "integrity" ELSE "data_integrity"
CriticalPassed ==
    /\ Has("srm") /\ results["srm"].passed
    /\ Has(IntegrityKey) /\ results[IntegrityKey].passed
BalanceOrTemporalFailed ==
    \/ Has("balance") /\ ~results["balance"].passed
    \/ Has("temporal") /\ ~results["temporal"].passed

VerdictRule ==
    /\ (Verdict = "VALID" => CriticalPassed)
    /\ (Verdict # "none" /\ CriticalPassed /\ BalanceOrTemporalFailed
          => Verdict = "CAUTION")
    /\ (Verdict = "INVALID" => ~CriticalPassed)

\* C4 (as stated): for both entry points the verdict is VALID only when SRM
\* and data integrity pass, CAUTION when they pass and balance or temporal
\* stability fails, INVALID only when a critical check fails.
C4_VerdictGate == (InRAV \/ InVT) => VerdictRule

\* C4 (amended): run_all_validations follows the rule.  validate_test has two
\* verdicts only: VALID exactly when SRM and data integrity pass, INVALID
\* otherwise; a balance or temporal failure alone leaves it VALID.
C4_VerdictGateAmended ==
    /\ (InRAV => VerdictRule)
    /\ (InVT /\ Verdict # "none"
          => /\ Verdict \in {"VALID", "INVALID"}
             /\ (Verdict = "VALID" <=> CriticalPassed))

\* a run_all_validations run that ended in CAUTION because the covariates
\* are imbalanced
C4_Witness ==
    /\ InRAV /\ pc = "done" /\ Verdict = "CAUTION"
    /\ Has("balance") /\ ~results["balance"].passed

IsSkipped(f) == "status" \in DOMAIN f /\ f.status = "SKIPPED"

\* C5 (as stated): no check raises; covariate balance on fewer than 2 variants
\* or with none of the listed covariates among the columns is a SKIPPED
\* finding, and run_all_validations / validate_test return their report.
C5_ChecksNeverRaise ==
    (InRAV \/ InVT) =>
        /\ ret.kind # "exception"
        /\ (Has("balance") /\ Len(df.counts) < 2 => IsSkipped(results["balance"]))
        /\ (Has("balance")
              /\ (\A i \in 1..Len(StandardCovariates) : ~InColumns(df, StandardCovariates[i]))
              => IsSkipped(results["balance"]))

RunOrder == <<"srm", "data_integrity", "balance", "temporal", "outliers",
              "sample_size", "multiple_testing">>
OrderIndex(c) == CHOOSE i \in 1..Len(RunOrder) : RunOrder[i] = c

\* the run has gone past the balance / temporal section
PastBalance ==
    \/ pc \in {"temporal", "outliers", "sample_size", "correction", "summary"}
    \/ pc = "done" /\ ~SrmHardFailure
PastTemporal ==
    \/ pc \in {"outliers", "sample_size", "correction", "summary"}
    \/ pc = "done" /\ ~SrmHardFailure

\* C6: in every run of run_all_validations the checks executed so far appear
\* in the order SRM, data integrity, covariate balance, temporal stability,
\* outliers, sample size, multiple-testing correction, each at most once;
\* covariate balance is executed only if covariates were given and, once the
\* run is past that section, if they were given; the same for temporal
\* stability and the date column.
C6_FixedOrder ==
    InRAV =>
        /\ \A i, j \in 1..Len(executed) :
              i < j => OrderIndex(executed[i]) < OrderIndex(executed[j])
        /\ (Ran("balance") => Supplied(args.covariates))
        /\ (PastBalance /\ Supplied(args.covariates) => Ran("balance"))
        /\ (Ran("temporal") => Supplied(args.date_col))
        /\ (PastTemporal /\ Supplied(args.date_col) => Ran("temporal"))

\* a completed run in which all seven checks were executed
C6_Witness ==
    /\ InRAV /\ pc = "done"
    /\ executed = RunOrder

\* C7 (as stated): a run of run_all_validations ends early only on the SRM
\* hard failure, and when it ends the finding of every executed check is in
\* the result set it returns.
C7_OnlySrmIsFatal ==
    (InRAV /\ pc = "done") =>
        /\ (~SrmHardFailure => Ran("outliers") /\ Ran("sample_size"))
        /\ ret.kind = "value"
        /\ \A i \in 1..Len(executed) :
              /\ executed[i] \in DOMAIN ret.value
              /\ ret.value[executed[i]] = results[executed[i]]

\* ========================================================================
\* Properties of the metric classifier and the test selector
\* ========================================================================
InSRT == op = "select_and_run_test"
InDMT == op = "detect_metric_type"
TestNames == {"two_proportion_test", "welch_t_test", "mann_whitney_test",
              "kruskal_wallis_test", "chi_square_test"}
TestsRun == SelectSeq(executed, LAMBDA c : c \in TestNames)

\* the decision table: metric type, variant count (2 or more),
\* parametric = the normality check said normal and |skew| < 1
TableTest(metric_type, variant_count, parametric) ==
    CASE metric_type = BINARY /\ variant_count = 2 -> "two_proportion_test"
      [] metric_type = BINARY /\ variant_count >= 3 -> "chi_square_test"
      [] metric_type = CONTINUOUS /\ variant_count = 2 /\ parametric -> "welch_t_test"
      [] metric_type = CONTINUOUS /\ variant_count = 2 /\ ~parametric -> "mann_whitney_test"
      [] metric_type = CONTINUOUS /\ variant_count >= 3 -> "kruskal_wallis_test"
      [] metric_type = COUNT /\ variant_count = 2 -> "mann_whitney_test"
      [] metric_type = COUNT /\ variant_count >= 3 -> "kruskal_wallis_test"
      [] metric_type = CATEGORICAL -> "chi_square_test"

\* C8: a call of select_and_run_test on a frame with at least 2 variants runs
\* exactly one test, the one the decision table gives for the metric type,
\* the variant count and (for a continuous metric) the normality result; no
\* test runs before the dispatch.
C8_DecisionTable ==
    InSRT =>
        /\ (pc # "done" => TestsRun = <<>>)
        /\ (pc = "done" /\ results["n_variants"] >= 2 =>
              TestsRun =
                <<TableTest(results["metric_type"], results["n_variants"],
                            /\ "normality_check" \in DOMAIN results
                            /\ results["normality_check"].is_normal
                            /\ Abs(results["normality_check"].skewness) < 1000)>>)

\* a continuous metric on 2 variants, normal and not skewed: Welch's t-test ran
C8_Witness ==
    /\ InSRT /\ pc = "done" /\ ret.kind = "value"
    /\ results["metric_type"] = CONTINUOUS /\ results["n_variants"] = 2
    /\ results["normality_check"].is_normal
    /\ TestsRun = <<"welch_t_test">>

\* the classifier's rules, as stated
NumericDTypes == {"int64", "int32", "float64", "bool"}
IntegerDTypes == {"int64", "int32"}
Rule1(data) ==
    /\ Cardinality(data.values) = 2
    /\ ~data.textual /\ \A v \in data.values : v = 0 \/ v = 1
Rule2(data) == data.dtype \notin NumericDTypes
Rule3(data) ==
    /\ data.dtype \in IntegerDTypes
    /\ \A v \in data.values : v >= 0
    /\ \E m \in data.values : (\A v \in data.values : v <= m) /\ m < 20
    /\ Cardinality(data.values) < 15
NameHas(name, words) ==
    ~name.isNone /\ \E w \in words : Contains(Lower(name.val), w)
DataRule(data) == Rule1(data) \/ Rule2(data) \/ Rule3(data)

FirstMatch(data, name) ==
    IF Rule1(data) THEN BINARY
    ELSE IF Rule2(data) THEN CATEGORICAL
    ELSE IF Rule3(data) THEN COUNT
    ELSE IF NameHas(name, BinaryKeywords) THEN BINARY
    ELSE IF NameHas(name, CountKeywords) THEN COUNT
    ELSE CONTINUOUS

\* the classifier's answer in the current state: the value detect_metric_type
\* returned, or the metric_type select_and_run_test recorded
Classified ==
    \/ InDMT /\ pc = "done"
    \/ InSRT /\ pc # "classify"
ClassifiedData == IF InDMT THEN args.data ELSE df.column
ClassifiedName == IF InDMT THEN args.metric_name ELSE Some(args.metric)
ClassifiedType == IF InDMT THEN ret.value ELSE results["metric_type"]

C10_Total ==
    /\ (InDMT /\ pc = "classify" => ENABLED DMT_Return)
    /\ (InDMT /\ pc = "done" => ret.kind = "value")
    /\ (Classified =>
          /\ ClassifiedType \in {BINARY, COUNT, CONTINUOUS, CATEGORICAL}
          /\ (~DataRule(ClassifiedData)
                /\ ~NameHas(ClassifiedName, BinaryKeywords \cup CountKeywords)
                => ClassifiedType = CONTINUOUS))

\* a float column with nulls and no name hint falls through to CONTINUOUS
C10_Witness ==
    /\ InDMT /\ pc = "done"
    /\ args.data.dtype = "float64" /\ args.data.hasNull
    /\ args.metric_name = None
    /\ ret.value = CONTINUOUS

\* ========================================================================
\* Properties of the test library
\* ========================================================================
InTest == op = "test"
TwoVariantTests == {"two_proportion_test", "welch_t_test", "mann_whitney_test"}
\* the number of variants of a frame whose variant column has no nulls
Variants == df.variant_nunique

\* C11: a test called on a frame (variant column without nulls) whose number
\* of variants does not meet the test's requirement - exactly 2 for
\* two_proportion_test, welch_t_test and mann_whitney_test, at least 3 for
\* kruskal_wallis_test - raises ValueError, and it raises ValueError only then;
\* whenever a test raises, on any frame, the caller gets the exception and no
\* result record.
C11_CardinalityError ==
    (InTest /\ pc = "done") =>
        /\ (~df.variant_has_null /\ args.test \in TwoVariantTests =>
              (ret = Raised("ValueError")) = (Variants # 2))
        /\ (~df.variant_has_null /\ args.test = "kruskal_wallis_test" =>
              (ret = Raised("ValueError")) = (Variants < 3))
        /\ (ret.kind = "exception" =>
              /\ "value" \notin DOMAIN ret
              /\ results = EmptyDict)

\* Kruskal-Wallis called on 2 variants has raised
C11_Witness ==
    /\ InTest /\ pc = "done" /\ args.test = "kruskal_wallis_test"
    /\ ~df.variant_has_null /\ Variants = 2
    /\ ret = Raised("ValueError")

\* C12: two_proportion_test on two (non-null) variants returns a result
\* record with every field, the interpretation included; its relative lift
\* is nan when variant A's rate is 0, and (rate_B - rate_A) / rate_A when it
\* is positive.
C12_RelativeLift ==
    (InTest /\ pc = "done" /\ args.test = "two_proportion_test"
       /\ ~df.variant_has_null /\ Variants = 2) =>
        /\ ret.kind = "value"
        /\ {"rate_A", "rate_B", "p_value", "significant", "absolute_difference",
            "relative_lift", "interpretation"} \subseteq DOMAIN ret.value
        /\ LET g == df.groups
               r == ret.value
           IN  /\ r.rate_A = Frac(g.successes_A, g.nobs_A)
               /\ r.rate_B = Frac(g.successes_B, g.nobs_B)
               /\ (g.successes_A = 0 => r.relative_lift.nan)
               /\ (g.successes_A > 0 =>
                     /\ ~r.relative_lift.nan
                     \* lift * rate_A = rate_B - rate_A, cross-multiplied
                     /\ r.relative_lift.num * g.successes_A * g.nobs_B
                          = (g.successes_B * g.nobs_A - g.successes_A * g.nobs_B)
                              * r.relative_lift.den)

\* variant A without a success, variant B significantly better: the
\* interpretation prints the lift, which is nan
C12_Witness ==
    /\ InTest /\ pc = "done" /\ args.test = "two_proportion_test"
    /\ df.groups.successes_A = 0 /\ df.groups.successes_B > 0
    /\ ret.kind = "value"
    /\ ret.value.relative_lift.nan
    /\ ret.value.significant
    /\ ret.value.interpretation.lift = "nan"

\* ========================================================================
\* Properties of the correction and of run_test_analysis
\* ========================================================================
InRTA == op = "run_test_analysis"
InAMTC == op = "Analyzer.multiple_testing_correction"
InMTC == op = "multiple_testing_correction"
Positions(event) == {k \in 1..Len(executed) : executed[k] = event}

\* the outputs of a correction stand at the places of their inputs: a
\* smaller input has the smaller (or equal) corrected p-value, and is rejected
\* whenever a larger one is
AlignedWith(p, corrected, reject) ==
    /\ Len(corrected) = Len(p) /\ Len(reject) = Len(p)
    /\ \A i, j \in 1..Len(p) :
          p[i] <= p[j] => /\ corrected[i] <= corrected[j]
                          /\ (reject[j] => reject[i])

\* the names of the results are names of the metrics, in the metrics' order
InMetricOrder(test_results, metrics) ==
    \E f \in [1..Len(test_results) -> 1..Len(metrics)] :
        /\ \A i \in 1..Len(test_results) : test_results[i].metric = metrics[f[i]].name
        /\ \A i, j \in 1..Len(test_results) : i < j => f[i] < f[j]

\* C13: the correction's three arrays are aligned with its input; in
\* run_test_analysis the result list and the p-value list have the same length
\* at every point, the i-th p-value is the p-value of the i-th result, the
\* results follow the metric order (skipped metrics left out), and the report
\* puts the i-th corrected p-value under the i-th result's metric.
C13_IndexAligned ==
    /\ (InAMTC /\ pc = "done" /\ ret.kind = "value") =>
          /\ ret.value.original_p_values = args.p_values
          /\ AlignedWith(args.p_values, ret.value.corrected_p_values,
                         ret.value.reject_null)
    /\ InRTA =>
          LET test_results == results["test_results"]
              p_values == results["p_values"]
          IN  /\ Len(test_results) = Len(p_values)
              /\ \A i \in 1..Len(p_values) : p_values[i] = test_results[i].p_value
              /\ InMetricOrder(test_results, df.metrics)
              /\ (Has("correction_results") =>
                    /\ results["correction_results"].original_p_values = p_values
                    /\ AlignedWith(p_values,
                                   results["correction_results"].corrected_p_values,
                                   results["correction_results"].reject_null))
              /\ (Has("report") =>
                    /\ Len(results["report"]) = Len(test_results)
                    /\ \A i \in 1..Len(test_results) :
                          /\ results["report"][i].metric_name = test_results[i].metric
                          /\ results["report"][i].orig_p = test_results[i].p_value)

\* three metrics, the second one skipped, the p-values collected in
\* descending order and corrected by Holm
C13_Witness ==
    /\ InRTA /\ pc = "done"
    /\ Len(df.metrics) = 3 /\ Len(results["p_values"]) = 2
    /\ results["test_results"][1].metric = df.metrics[1].name
    /\ results["test_results"][2].metric = df.metrics[3].name
    /\ results["p_values"][1] > results["p_values"][2]
    /\ results["correction_results"].method = "holm"
    /\ results["correction_results"].corrected_p_values[1]
         > results["correction_results"].corrected_p_values[2]

\* C14: in run_test_analysis the correction is invoked at most once, after
\* select_and_run_test has been called (and has returned or raised) for every
\* metric; once there is a correction result, its input is the list of all the
\* p-values collected, one per result, and that list does not grow any more.
C14_CorrectionAfterAllTests ==
    InRTA =>
        /\ Cardinality(Positions("multiple_testing_correction")) <= 1
        /\ \A c \in Positions("multiple_testing_correction") :
              /\ \A t \in Positions("select_and_run_test") : t < c
              /\ Cardinality(Positions("select_and_run_test")) = Len(df.metrics)
        /\ (Has("correction_results") =>
              /\ Cardinality(Positions("select_and_run_test")) = Len(df.metrics)
              /\ results["correction_results"].original_p_values = results["p_values"]
              /\ results["correction_results"].n_tests = Len(results["test_results"]))

\* a finished analysis of three metrics, one of them skipped, in which the
\* correction was invoked
C14_Witness ==
    /\ InRTA /\ pc = "done"
    /\ Len(df.metrics) = 3 /\ Len(results["test_results"]) = 2
    /\ Positions("multiple_testing_correction") = {4}

\* each corrected p-value is at least its raw p-value, and the corrected
\* values do not decrease along ascending raw p-values
HolmMonotone(p, corrected) ==
    /\ \A i \in 1..Len(p) : corrected[i] >= p[i]
    /\ \A i, j \in 1..Len(p) : p[i] <= p[j] => corrected[i] <= corrected[j]

\* C15: for a non-empty list of p-values and any method, no more p-values are
\* significant after the correction than before it, in the validator's
\* correction (n_significant_corrected <= n_significant_original) and in
\* run_test_analysis (n_significant_after <= n_significant_before); Holm's
\* corrected p-values are >= the raw ones and non-decreasing in ascending
\* order of the raw ones.
C15_NeverMoreSignificant ==
    /\ (InMTC /\ pc = "done" /\ Len(args.pvalues) > 0) =>
          /\ ret.kind = "value"
          /\ ret.value.n_significant_corrected <= ret.value.n_significant_original
          /\ (args.method = "holm" =>
                HolmMonotone(args.pvalues, ret.value.corrected_pvalues))
    /\ (InAMTC /\ pc = "done" /\ Len(args.p_values) > 0) =>
          /\ ret.kind = "value"
          /\ (args.method = "holm" =>
                HolmMonotone(args.p_values, ret.value.corrected_p_values))
    /\ (InRTA /\ pc = "done") =>
          ret.value.n_significant_after <= ret.value.n_significant_before

\* the reject flags of the three methods on the list the entry point was
\* called with
RejectOf(pvalues, method) ==
    multiple_testing_correction(pvalues, method).value.reject
AnalyzerRejectOf(p_values, method) ==
    Analyzer_multiple_testing_correction(p_values, method).value.reject_null
Nested(bonferroni, holm, fdr_bh) ==
    \A i \in 1..Len(bonferroni) :
        /\ bonferroni[i] => holm[i]
        /\ holm[i] => fdr_bh[i]

\* C16: on one and the same non-empty list of p-values, whatever Bonferroni
\* rejects Holm rejects, and whatever Holm rejects Benjamini-Hochberg rejects;
\* the flags an entry point returns are those of the method it was called
\* with.
C16_RejectSetsNested ==
    /\ (InMTC /\ pc = "done" /\ Len(args.pvalues) > 0) =>
          /\ ret.value.reject = RejectOf(args.pvalues, args.method)
          /\ Nested(RejectOf(args.pvalues, "bonferroni"),
                    RejectOf(args.pvalues, "holm"),
                    RejectOf(args.pvalues, "fdr_bh"))
    /\ (InAMTC /\ pc = "done" /\ Len(args.p_values) > 0) =>
          /\ ret.value.reject_null = AnalyzerRejectOf(args.p_values, args.method)
          /\ Nested(AnalyzerRejectOf(args.p_values, "bonferroni"),
                    AnalyzerRejectOf(args.p_values, "holm"),
                    AnalyzerRejectOf(args.p_values, "fdr_bh"))

\* Holm called on 0.010, 0.020, 0.400: Bonferroni rejects the first only,
\* Holm and Benjamini-Hochberg the first two
C16_Witness ==
    /\ InMTC /\ pc = "done" /\ args.method = "holm"
    /\ args.pvalues = <<10, 20, 400>>
    /\ RejectOf(args.pvalues, "bonferroni") = <<TRUE, FALSE, FALSE>>
    /\ ret.value.reject = <<TRUE, TRUE, FALSE>>
    /\ RejectOf(args.pvalues, "fdr_bh") = <<TRUE, TRUE, FALSE>>

\* C17: a correction given exactly one p-value returns it unchanged, with
\* reject = (p < alpha) and method "none", at each of the entry points
\* (the validator's correction, the analyzer's correction, run_test_analysis).
C17_SinglePassThrough ==
    /\ (InMTC /\ pc = "done" /\ Len(args.pvalues) = 1) =>
          /\ ret.kind = "value"
          /\ ret.value.corrected_pvalues = args.pvalues
          /\ ret.value.reject = <<args.pvalues[1] < correction_alpha>>
          /\ ret.value.method = "none"
    /\ (InAMTC /\ pc = "done" /\ Len(args.p_values) = 1) =>
          /\ ret.kind = "value"
          /\ ret.value.corrected_p_values = args.p_values
          /\ ret.value.reject_null = <<args.p_values[1] < alpha>>
          /\ ret.value.method = "none"
    /\ (InRTA /\ Has("correction_results") /\ Len(results["p_values"]) = 1) =>
          /\ results["correction_results"].corrected_p_values = results["p_values"]
          /\ results["correction_results"].reject_null
               = <<results["p_values"][1] < alpha>>
          /\ results["correction_results"].method = "none"

\* C18: a correction called with no p-value ends in an error and returns no
\* result; an analysis in which no metric produced a p-value has no
\* correction result.
C18_EmptyListRejected ==
    /\ (InMTC /\ pc = "done" /\ Len(args.pvalues) = 0) => ret.kind = "exception"
    /\ (InAMTC /\ pc = "done" /\ Len(args.p_values) = 0) => ret.kind = "exception"
    /\ (InRAV /\ ~args.metric_pvalues.isNone /\ Len(args.metric_pvalues.val) = 0) =>
          ~Has("multiple_testing")
    /\ (InRTA /\ pc \in {"report", "done"} /\ Len(results["p_values"]) = 0) =>
          ~Has("correction_results")

\* ========================================================================
\* Frame condition and data integrity
\* ========================================================================
\* C19: from the call of an entry point (validation run, quick validation,
\* test, test selection, analysis) to its return, no step changes the
\* caller's dataset - its columns, their types, its values; the parsed
\* timestamp and the 'date' column exist in the checks' private copies only.
C19_DatasetReadOnly ==
    [][(op # "idle" /\ op' # "idle") => df' = df]_vars

\* a validation run past the integrity and temporal checks on a frame with a
\* text timestamp column: no 'date' column, the timestamp still unparsed
C19_Witness ==
    /\ InRAV /\ pc = "done" /\ ret.kind = "value"
    /\ Ran("data_integrity") /\ Ran("temporal") /\ Has("temporal")
    /\ InColumns(df, "timestamp") /\ ~InColumns(df, "date")
    /\ df.datetime = {}
    /\ InColumns(temporal_local_frame(df, "timestamp"), "date")

\* the number of issues of a frame, as the claim counts them
IssueCount(d) ==
    (IF InColumns(d, "session_id") /\ d.dupSessions > 0 THEN 1 ELSE 0)
    + Cardinality({c \in d.missing : InColumns(d, c)})
    + Cardinality({c \in d.negative \cap d.numeric :
                     /\ InColumns(d, c)
                     /\ Contains(Lower(c), "revenue") \/ Contains(Lower(c), "price")})
    + (IF InColumns(d, "timestamp") /\ d.futureRows > 0 THEN 1 ELSE 0)

\* C20: the data-integrity finding reports as many issues as the frame has
\* (duplicate session ids: one; future timestamps: one; one per column with
\* missing values; one per revenue/price column with negative values), n_issues
\* is the length of its issue list, and its status is PASS (passed) for 0
\* issues, WARNING (passed) for 1 or 2, FAIL (not passed) for more.
C20_IntegrityStatus ==
    ((InRAV \/ InVT) /\ Has(IntegrityKey)) =>
        LET f == results[IntegrityKey] IN
        /\ f.n_issues = Len(f.issues)
        /\ f.n_issues = IssueCount(df)
        /\ (f.n_issues = 0 => f.status = "PASS" /\ f.passed)
        /\ (f.n_issues \in {1, 2} => f.status = "WARNING" /\ f.passed)
        /\ (f.n_issues > 2 => f.status = "FAIL" /\ ~f.passed)

\* a frame with exactly two issues: a warning that passes
C20_Witness ==
    /\ InRAV /\ Has(IntegrityKey)
    /\ IssueCount(df) = 2
    /\ results[IntegrityKey].status = "WARNING"
    /\ results[IntegrityKey].passed

\* ========================================================================
\* Properties of the single tests
\* ========================================================================
\* the same two groups in the opposite order
SwapAB(d) ==
    [d EXCEPT !.groups = [nobs_A |-> d.groups.nobs_B,
                          successes_A |-> d.groups.successes_B,
                          nobs_B |-> d.groups.nobs_A,
                          successes_B |-> d.groups.successes_A]]
NegateSign(s) == IF s = "+" THEN "-" ELSE IF s = "-" THEN "+" ELSE s
NegateFrac(f) == IF f.nan THEN f ELSE [f EXCEPT !.num = 0 - f.num]

\* C21: two_proportion_test on the same two groups in the opposite order
\* returns the negated absolute_difference and the negated z statistic, the
\* rates and the group sizes exchanged, and the same p-value and the same
\* significance flag.
C21_SwapSymmetry ==
    (InTest /\ pc = "done" /\ args.test = "two_proportion_test"
       /\ ret.kind = "value") =>
        LET r == ret.value
            s == two_proportion_test(SwapAB(df))
        IN  /\ s.kind = "value"
            /\ s.value.absolute_difference = NegateFrac(r.absolute_difference)
            /\ s.value.z_sign = NegateSign(r.z_sign)
            /\ s.value.rate_A = r.rate_B /\ s.value.rate_B = r.rate_A
            /\ s.value.n_A = r.n_B /\ s.value.n_B = r.n_A
            /\ s.value.p_value = r.p_value
            /\ s.value.significant = r.significant

\* groups of different sizes and rates, variant B ahead: z is negative and
\* becomes positive in the opposite order
C21_Witness ==
    /\ InTest /\ pc = "done" /\ args.test = "two_proportion_test"
    /\ ret.kind = "value"
    /\ df.groups.nobs_A # df.groups.nobs_B
    /\ ret.value.z_sign = "-"
    /\ two_proportion_test(SwapAB(df)).value.z_sign = "+"
    /\ ret.value.absolute_difference.num > 0

\* C22: select_and_run_test called with force_test naming a test runs that
\* test, whatever the automatic selection would have chosen.
C22_ForceTestHonoured ==
    (InSRT /\ pc = "done" /\ ~args.force_test.isNone) =>
        executed[Len(executed)] = args.force_test.val

\* force_test names the chi-square test, the selection ran another test
C22_Ignored ==
    /\ InSRT /\ pc = "done"
    /\ ~args.force_test.isNone /\ args.force_test.val = "chi_square_test"
    /\ executed[Len(executed)] = "two_proportion_test"
    /\ ret.kind = "value" /\ ret.value.test_type = "Two-Proportion Z-Test"

InCN == op = "check_normality"
\* what the formal test alone decides
FormalDecision(f) ==
    IF f.n < sample_threshold THEN f.shapiro_p > 50
    ELSE f.ad_statistic < f.ad_critical

\* C23: check_normality runs Shapiro-Wilk when the non-null count is below
\* the threshold (is_normal = p > 0.05) and Anderson-Darling otherwise
\* (is_normal = statistic < 5% critical value); whatever that test decided,
\* |skewness| > 2 makes is_normal False and adds the severe-skewness note; so
\* is_normal implies |skewness| <= 2, and the result names the test that ran.
C23_NormalityDecision ==
    (InCN /\ pc = "done") =>
        LET f == args.data
            r == ret.value
            severe == Abs(f.skewness) > 2000
        IN  /\ ret.kind = "value"
            /\ r.test_used = IF f.n < sample_threshold
                             THEN "Shapiro-Wilk" ELSE "Anderson-Darling"
            /\ r.is_normal = (FormalDecision(f) /\ ~severe)
            /\ (r.note = "Severe skewness detected") = severe
            /\ (r.is_normal => Abs(r.skewness) <= 2000)

\* Shapiro-Wilk accepted normality, the skewness overrode it
C23_Witness ==
    /\ InCN /\ pc = "done"
    /\ args.data.n < sample_threshold /\ args.data.shapiro_p > 50
    /\ Abs(args.data.skewness) > 2000
    /\ ~ret.value.is_normal
    /\ ret.value.test_used = "Shapiro-Wilk"
    /\ ret.value.note = "Severe skewness detected"

\* C24: kruskal_wallis_test on k >= 3 variants reports exactly k*(k-1)/2
\* pairwise comparisons, one for each unordered pair of distinct variants
\* and none twice, whether or not the omnibus p-value is significant; each
\* pairwise p-value is the Mann-Whitney p-value of the pair, uncorrected.
C24_AllPairsRaw ==
    (InTest /\ pc = "done" /\ args.test = "kruskal_wallis_test"
       /\ ~df.variant_has_null /\ Variants >= 3) =>
        /\ ret.kind = "value"
        /\ LET pw == ret.value.pairwise_comparisons
               k == Variants
           IN  /\ 2 * Len(pw) = k * (k - 1)
               /\ \A i, j \in 1..k : i < j =>
                    Cardinality({n \in DOMAIN pw :
                       {pw[n].variant_1, pw[n].variant_2} = {i, j}}) = 1
               /\ \A n \in DOMAIN pw :
                    /\ pw[n].variant_1 # pw[n].variant_2
                    /\ pw[n].p_value = df.pair_p[<<pw[n].variant_1, pw[n].variant_2>>]

\* three variants, the omnibus test not significant, a significant pair
\* among the three reported
C24_Witness ==
    /\ InTest /\ pc = "done" /\ args.test = "kruskal_wallis_test"
    /\ ~df.variant_has_null /\ Variants = 3
    /\ ret.kind = "value" /\ ~ret.value.significant
    /\ Len(ret.value.pairwise_comparisons) = 3
    /\ \E n \in 1..3 : ret.value.pairwise_comparisons[n].p_value < alpha

\* ========================================================================
\* Properties of the single validation checks
\* ========================================================================
BalanceResult == results["balance"]
BalanceRan == Has("balance") /\ "max_smd" \in DOMAIN results["balance"]

\* C25: covariate_balance_check calls the balance excellent when the largest
\* SMD is below 0.1 and good when it is from 0.1 up to the threshold; every
\* comparison whose SMD is at or above the threshold is marked imbalanced and
\* listed in imbalanced_covariates; passed is False exactly when that list
\* is non-empty.
C25_ImbalancedAtThreshold ==
    BalanceRan =>
        LET b == BalanceResult
            rows == b.balance_results
        IN  /\ (b.max_smd < 100 => b.message = "Excellent balance")
            /\ (b.max_smd >= 100 /\ b.max_smd < b.threshold
                  => b.message = "Good balance")
            /\ \A i \in DOMAIN rows :
                 rows[i].smd >= b.threshold =>
                   /\ rows[i].imbalanced
                   /\ \E n \in DOMAIN b.imbalanced_covariates :
                        b.imbalanced_covariates[n] = rows[i]
            /\ b.n_imbalanced = Len(b.imbalanced_covariates)
            /\ (~b.passed) = (b.n_imbalanced > 0)

\* a comparison with SMD equal to the threshold: the check fails with an
\* empty list of imbalanced covariates
C25_FailedWithNoneImbalanced ==
    /\ BalanceRan
    /\ BalanceResult.max_smd = BalanceResult.threshold
    /\ ~BalanceResult.passed
    /\ BalanceResult.n_imbalanced = 0
    /\ BalanceResult.message = "covariate(s) imbalanced"

InSSC == op = "sample_size_check"
\* 16 / mde^2 for the default mde = 0.05 = 1/20
SixteenOverMdeSquared == 16 * 20 * 20

\* C26: sample_size_check gives one of three statuses from the smallest
\* variant count and required = 16/mde^2: ADEQUATE (passed) when min_sample
\* >= required, BORDERLINE (passed, detectable MDE sqrt(16/min_sample)
\* reported) when required > min_sample >= 0.7*required, UNDERPOWERED (not
\* passed) otherwise; passed is False iff the status is UNDERPOWERED.
C26_ThreeStatuses ==
    (InSSC /\ pc = "done") =>
        LET r == ret.value
            m == MinSeq(df.counts)
        IN  /\ r.min_sample = m
            /\ r.status = IF m >= SixteenOverMdeSquared THEN "ADEQUATE"
                          ELSE IF 10 * m >= 7 * SixteenOverMdeSquared
                               THEN "BORDERLINE"
                          ELSE "UNDERPOWERED"
            /\ (r.status = "BORDERLINE" =>
                  /\ r.message = "Can detect approximately"
                  /\ r.detectable_mde = [inf |-> FALSE, sq_num |-> 16, sq_den |-> m])
            /\ (~r.passed) = (r.status = "UNDERPOWERED")

\* the smallest variant has 6399 rows, fewer than 16/0.05^2 = 6400, and the
\* check calls the sample adequate
C26_AdequateBelowRequired ==
    /\ InSSC /\ pc = "done"
    /\ MinSeq(df.counts) = 6399
    /\ ret.value.status = "ADEQUATE"
    /\ ret.value.required_sample = 6399

InOD == op = "outlier_detection"
\* position i of the frame holds a numeric column that is not an identifier
IsMetricCol(d, i) ==
    d.columns[i] \in d.numeric /\ d.columns[i] \notin {"session_id", "user_id"}
\* the numeric non-identifier columns with fewer than 5 such columns before
ExaminedCols(d) ==
    {d.columns[i] : i \in {i \in DOMAIN d.columns :
        /\ IsMetricCol(d, i)
        /\ Cardinality({j \in 1..(i - 1) : IsMetricCol(d, j)}) < 5}}
\* values strictly outside [Q1 - 1.5*IQR, Q3 + 1.5*IQR] (everything 8 times)
StrictlyOutside(xs) ==
    LET q1 == Quantile4(xs, 1)
        q3 == Quantile4(xs, 3)
    IN  Cardinality({i \in DOMAIN xs :
           ~(/\ 8 * xs[i] >= 2 * q1 - 3 * (q3 - q1)
             /\ 8 * xs[i] <= 2 * q3 + 3 * (q3 - q1))})
Rescale(xs, a, b) == [i \in DOMAIN xs |-> a * xs[i] + b]

\* C27: outlier_detection examines the first 5 numeric columns that are not
\* session_id or user_id and no other column; for each it counts the values
\* strictly outside [Q1 - 1.5*IQR, Q3 + 1.5*IQR]; it returns WARNING exactly
\* when some examined column has more than 10% of the rows outside, PASS
\* otherwise; the count of a column is the same when the column is rescaled
\* as a*x + b with a > 0.
C27_OutlierFinding ==
    (InOD /\ pc = "done") =>
        LET r == ret.value
            examined == ExaminedCols(df)
        IN  /\ Cardinality(examined) <= 5
            /\ DOMAIN r.outlier_summary = examined
            /\ \A c \in examined :
                 /\ r.outlier_summary[c].n_outliers = StrictlyOutside(df.values[c])
                 /\ \A a \in {1, 2, 3}, b \in {-7, 0, 5} :
                      CountOutliers(Rescale(df.values[c], a, b))
                        = r.outlier_summary[c].n_outliers
            /\ r.status = IF \E c \in examined :
                               100 * StrictlyOutside(df.values[c]) > 10 * df.rows
                          THEN "WARNING" ELSE "PASS"
            /\ r.passed = (r.status = "PASS")

\* six metric columns: the sixth has 20% outliers, one of the first five has
\* exactly 10%, and the finding is PASS
C27_Witness ==
    /\ InOD /\ pc = "done"
    /\ Len(df.columns) = 9
    /\ df.values[df.columns[9]] = TwoOutliers
    /\ \E i \in 4..8 : df.values[df.columns[i]] = OneOutlier
    /\ \A i \in 4..8 : df.values[df.columns[i]] # TwoOutliers
    /\ ret.value.status = "PASS"
    /\ ret.value.max_outlier_pct = 10

\* the sentences that report no effect
NoEffectForms ==
    {"No significant difference", "No significant difference in distributions",
     "No significant difference among variants",
     "No association between variant and outcome"}

\* C28: in every result record of the five tests the significance flag is
\* (p_value < alpha), and the interpretation is the "no significant
\* difference / no association" sentence exactly when the flag is False.
C28_FlagMatchesInterpretation ==
    (InTest /\ pc = "done" /\ ret.kind = "value") =>
        LET r == ret.value
        IN  /\ r.significant = (~IsNaN(r.p_value) /\ r.p_value < alpha)
            /\ (r.interpretation.form \in NoEffectForms) = ~r.significant

\* a 0/1 column without a single success: the p-value is nan, the flag is
\* False and the interpretation announces a significant difference
C28_NanPValue ==
    /\ InTest /\ pc = "done" /\ args.test = "two_proportion_test"
    /\ ret.kind = "value"
    /\ df.groups.successes_A = 0 /\ df.groups.successes_B = 0
    /\ IsNaN(ret.value.p_value)
    /\ ~ret.value.significant
    /\ ret.value.interpretation.form = "Variant B has significantly"

\* ========================================================================
\* The selector and the tests' own requirements
\* ========================================================================
\* C29: on a frame whose variant column has no nulls and at least 2 labels,
\* whatever the metric type, the selector's variant count is the count the
\* dispatched test takes itself, the test's requirement on it (exactly 2, or
\* at least 3 for Kruskal-Wallis) is met and select_and_run_test returns a
\* result, not a cardinality error; check_normality runs, and its result is
\* in the output, exactly when the metric was classified CONTINUOUS.
C29_SelectorMeetsRequirement ==
    (InSRT /\ pc = "done" /\ ~df.variant_has_null /\ df.variant_nunique >= 2) =>
        /\ results["n_variants"] = UniqueVariants(df)
        /\ Len(TestsRun) = 1
        /\ (TestsRun[1] \in TwoVariantTests => UniqueVariants(df) = 2)
        /\ (TestsRun[1] = "kruskal_wallis_test" => UniqueVariants(df) >= 3)
        /\ ret.kind = "value"
        /\ Ran("check_normality") = (results["metric_type"] = CONTINUOUS)
        /\ ("normality_check" \in DOMAIN ret.value)
             = (ret.value["metric_type"] = CONTINUOUS)

\* three variants, a continuous metric: Kruskal-Wallis returned a result and
\* the normality result is in the output
C29_Witness ==
    /\ InSRT /\ pc = "done" /\ ~df.variant_has_null /\ df.variant_nunique = 3
    /\ TestsRun = <<"kruskal_wallis_test">>
    /\ ret.kind = "value"
    /\ ret.value["metric_type"] = CONTINUOUS
    /\ "normality_check" \in DOMAIN ret.value
    /\ ret.value["n_variants"] = 3

\* two variants, a count metric: Mann-Whitney ran, no normality check
C29_CountWitness ==
    /\ InSRT /\ pc = "done" /\ ~df.variant_has_null /\ df.variant_nunique = 2
    /\ TestsRun = <<"mann_whitney_test">>
    /\ ret.kind = "value"
    /\ ret.value["metric_type"] = COUNT
    /\ "normality_check" \notin DOMAIN ret.value

\* ========================================================================
\* The quick entry point
\* ========================================================================
SixChecks ==
    <<"srm", "data_integrity", "balance", "temporal", "outliers", "sample_size">>

\* C30: validate_test runs all six checks on every dataset, also when SRM
\* fails, and returns validity VALID iff the SRM check and the
\* data-integrity check passed, INVALID otherwise, whatever the other four
\* checks found.
C30_NoShortCircuit ==
    (InVT /\ pc = "done") =>
        /\ executed = SixChecks
        /\ ret.kind = "value"
        /\ ret.value.validity
             = IF results["srm"].passed /\ results["integrity"].passed
               THEN "VALID" ELSE "INVALID"

\* a frame without a timestamp column: the temporal check raised, the last
\* two checks never ran and there is no validity
C30_StoppedAtTemporal ==
    /\ InVT /\ pc = "done"
    /\ ~InColumns(df, "timestamp")
    /\ executed = SubSeq(SixChecks, 1, 4)
    /\ ret = Raised("KeyError")

\* SRM failed, all six checks ran, the other four passed: INVALID
C30_SrmFailedAllRan ==
    /\ InVT /\ pc = "done" /\ ret.kind = "value"
    /\ ~results["srm"].passed
    /\ executed = SixChecks
    /\ results["balance"].passed /\ results["temporal"].passed
    /\ results["outliers"].passed /\ results["sample_size"].passed
    /\ ret.value.validity = "INVALID"

====
